---- MODULE Spec2Model ----
(***************************************************************************)
(* Verification model of aoe2tetris: the compiler that turns uniform       *)
(* random selection, a Fisher-Yates permutation and a phase-sequenced      *)
(* game loop into a flat list of scenario triggers (nodes).                *)
(*                                                                         *)
(* Part 1: the probability tree built by _declare_prob_tree and a walk     *)
(*         through it driven by coin flips (specification SpecTree).       *)
(***************************************************************************)
EXTENDS Integers, Sequences, FiniteSets, TLC

VARIABLES
    n,        \* SpecTree: the bound passed to _declare_prob_tree
    tmgr,     \* SpecTree: the trigger registry the tree is declared into
    tree,     \* SpecTree: the value _declare_prob_tree returned, or NoTree
    err,      \* SpecTree: the error the call raised, or "none"
    node,     \* SpecTree: the tree node the walk stands on
    flips,    \* SpecTree: the coin-flip outcomes consumed so far
    weight,   \* SpecTree: product of the branch percentages along the walk
    args,     \* SpecChance: the arguments of the ChanceNode constructor call
    caller,   \* SpecCaller: the ScriptCaller object
    ret,      \* SpecCaller: the value the last method call returned
    tdata,    \* compiler: the TetrisData object (trigger list and handles)
    scn,      \* compiler: the scenario written: every trigger with its wiring
    enabled,  \* engine: the enabled flag of every trigger
    vals,     \* engine: the value of every scenario variable
    pc,       \* engine: the list position the current tick has reached
    timer,    \* engine: ticks since a timed trigger was armed
    observed, \* observer: the triggers whose firing is recorded
    evaluated,\* engine: the triggers already evaluated in an any-order tick
    fired,    \* observer: the observed triggers that fired in the current tick
    ticks     \* observer: the number of ticks completed

treeVars == <<n, tmgr, tree, err, node, flips, weight, args, caller, ret, tdata, scn>>

engineVars == <<enabled, vals, pc, timer, observed, evaluated, fired, ticks>>

vars == <<treeVars, engineVars>>

\* Largest bound n for which a tree is built in SpecTree.
MaxN == 12

\* Number of invalid bounds tried in SpecTree: 0, -1, ... (they are rejected).
NumRejected == 2

SUCCESS == "success"
FAILURE == "failure"
Outcomes == {SUCCESS, FAILURE}

(***************************************************************************)
(* btreenode.py / probtree.py: the tree data structure.                    *)
(***************************************************************************)

\* BTreeNode(data, left, right): an internal node.
BTreeNode(data, left, right) == [data |-> data, left |-> left, right |-> right]

\* BTreeNode(data): a node without children (left = right = None).
BTreeLeaf(data) == [data |-> data]

\* isinstance(node.data, int): only the childless nodes store an int.
IsLeaf(t) == DOMAIN t = {"data"}

\* No node: a constructor call that raised returns nothing.
NoNode == [none |-> TRUE]

\* Mutant: the percentages 0 and 100 are rejected too.
ChanceNodeOkExclusive(percent) == ~(percent <= 0 \/ 100 <= percent)

\* ChanceNode.__init__: rejects a percent outside 0..100.
ChanceNodeOk(percent) == ~(percent < 0 \/ 100 < percent)

\* ChanceNode(percent, success, failure).
ChanceNode(percent, success, failure) ==
    [percent |-> percent, success |-> success, failure |-> failure]

\* The call ChanceNode(percent, success, failure): the ValueError raised, or
\* the node constructed.
new_ChanceNode(percent, success, failure) ==
    IF ChanceNodeOk(percent)
    THEN [err |-> "none", node |-> ChanceNode(percent, success, failure)]
    ELSE [err |-> "ValueError", node |-> NoNode]

\* No tree: the value of `tree` before the call and after a rejected call.
NoTree == [none |-> TRUE]

(***************************************************************************)
(* The trigger registry (tmgr): an append-only list of triggers; a         *)
(* trigger's id is its position in the list.                               *)
(***************************************************************************)

\* The name of a trigger: a label and two numbers that the f-strings of the
\* source interpolate into it.
TriggerName(label, a, b) == [label |-> label, a |-> a, b |-> b]

\* tmgr.add_trigger(name, enabled=..., looping=...): appends one trigger.
add_trigger(reg, name, is_enabled, is_looping) ==
    Append(reg, [name |-> name, enabled |-> is_enabled, looping |-> is_looping])

\* The id of the trigger that the last add_trigger on reg returned.
last_id(reg) == Len(reg)

(***************************************************************************)
(* tetrisdata.py _declare_prob_tree.                                       *)
(***************************************************************************)

\* Mutant: the percentage of the failure side is stored.
PercentOfRight(num_left, total) ==
    (200 * (total - num_left) + total) \div (2 * total)

\* Mutant: the percentage truncated instead of rounded.
PercentTruncated(num_left, total) == (100 * num_left) \div total

\* percent = int(100.0 * round(num_left / total, 2)): the quotient rounded
\* to the nearest hundredth h/100, then int(100.0 * (h/100)).  In binary
\* floating point 100.0 * 0.29, 100.0 * 0.57 and 100.0 * 0.58 fall just
\* below the integer and int() truncates them.  (declare_range only passes
\* num_left = total // 2, where the quotient is never halfway between two
\* hundredths.)
Percent(num_left, total) ==
    LET h == (200 * num_left + total) \div (2 * total)
    IN  IF h \in {29, 57, 58} THEN h - 1 ELSE h

\* Mutant: the midpoint rounded up instead of down.
MidRoundedUp(left, right) == left + ((right - left + 1) \div 2)

\* mid = left + (right - left) // 2
Mid(left, right) == left + ((right - left) \div 2)

\* BTreeNode(left): the leaf of a one-element left subrange.
LeftLeaf(left) == BTreeLeaf(left)

\* Mutant: the exclusive upper end stored in the leaf.
RightLeafOffByOne(right) == BTreeLeaf(right)

\* BTreeNode(right - 1): the leaf of a one-element right subrange.
RightLeaf(right) == BTreeLeaf(right - 1)

\* Mutant: the success trigger passed for both handles.
SplitDataSameTrigger(percent, success, failure) ==
    ChanceNode(percent, success, success)

\* Mutant: a subrange of one integer is split like any other.
NeedsLeafNever(num) == FALSE

\* `num_left == 1` / `num_right == 1`: a subrange of one integer is a leaf.
NeedsLeaf(num) == num = 1

\* The ChanceNode of a split, given the two triggers declared for it.
SplitData(percent, success, failure) == ChanceNode(percent, success, failure)

\* declare_range(left, right) with the registry threaded through; `bound`
\* is the n of the name prefix and `base` the registry length when
\* _declare_prob_tree was entered, so that name_char is the number of
\* triggers declared since.  The result is [tree, reg, err].  The call
\* asserts total > 1; the success trigger is declared first, the failure
\* trigger second, then the ChanceNode is constructed, then the left
\* subtree is built, then the right subtree.  An error raised on the way
\* ends the call: no tree is returned, the triggers declared so far stay.
RECURSIVE declare_range(_, _, _, _, _)
declare_range(left, right, reg, bound, base) ==
    LET total     == right - left
        mid       == Mid(left, right)
        num_left  == mid - left
        num_right == right - mid
        percent   == Percent(num_left, total)
        reg1      == add_trigger(reg,
                        TriggerName("Generate success", bound, Len(reg) - base),
                        FALSE, FALSE)
        success   == last_id(reg1)
        reg2      == add_trigger(reg1,
                        TriggerName("Generate failure", bound, Len(reg1) - base),
                        FALSE, FALSE)
        failure   == last_id(reg2)
        split     == new_ChanceNode(percent, success, failure)
        l == IF NeedsLeaf(num_left)
                THEN [tree |-> LeftLeaf(left), reg |-> reg2, err |-> "none"]
                ELSE declare_range(left, mid, reg2, bound, base)
        r == IF NeedsLeaf(num_right)
                THEN [tree |-> RightLeaf(right), reg |-> l.reg, err |-> "none"]
                ELSE declare_range(mid, right, l.reg, bound, base)
    IN  IF ~(total > 1)
        THEN [tree |-> NoTree, reg |-> reg, err |-> "AssertionError"]
        ELSE IF split.err # "none"
        THEN [tree |-> NoTree, reg |-> reg2, err |-> split.err]
        ELSE IF l.err # "none"
        THEN [tree |-> NoTree, reg |-> l.reg, err |-> l.err]
        ELSE IF r.err # "none"
        THEN [tree |-> NoTree, reg |-> r.reg, err |-> r.err]
        ELSE [tree |-> BTreeNode(SplitData(percent, success, failure), l.tree, r.tree),
              reg  |-> r.reg,
              err  |-> "none"]

\* Mutant: the bound 0 is accepted.
declare_prob_tree_from_zero(reg, bound) ==
    IF bound < 0
    THEN [tree |-> NoTree, reg |-> reg, err |-> "ValueError"]
    ELSE declare_range(0, bound + 1, reg, bound, Len(reg))

\* _declare_prob_tree(tmgr, n): raises ValueError for n < 1 before anything
\* is declared, otherwise returns declare_range(0, n + 1).
\* The result is [tree, reg, err].
declare_prob_tree(reg, bound) ==
    IF bound < 1
    THEN [tree |-> NoTree, reg |-> reg, err |-> "ValueError"]
    ELSE declare_range(0, bound + 1, reg, bound, Len(reg))

(***************************************************************************)
(* Observers of a tree.                                                    *)
(***************************************************************************)

RECURSIVE Leaves(_)
\* The leaf values read left to right (success side before failure side).
Leaves(t) == IF IsLeaf(t) THEN <<t.data>> ELSE Leaves(t.left) \o Leaves(t.right)

RECURSIVE Splits(_)
\* The ChanceNode data of the internal splits in pre-order.
Splits(t) == IF IsLeaf(t) THEN <<>> ELSE <<t.data>> \o Splits(t.left) \o Splits(t.right)

\* The triggers owned by the splits of t.
OwnedTriggers(t) ==
    {Splits(t)[i].success : i \in 1..Len(Splits(t))}
        \cup {Splits(t)[i].failure : i \in 1..Len(Splits(t))}

RECURSIVE LeafPaths(_)
\* The outcome sequences that lead from the root of t to a leaf.
LeafPaths(t) ==
    IF IsLeaf(t) THEN {<<>>}
    ELSE {<<SUCCESS>> \o p : p \in LeafPaths(t.left)}
         \cup {<<FAILURE>> \o p : p \in LeafPaths(t.right)}

RECURSIVE Descend(_, _)
\* The node reached from t by following the outcomes in fs (success = left,
\* failure = right); the walk stops at a leaf.
Descend(t, fs) ==
    IF fs = <<>> \/ IsLeaf(t) THEN t
    ELSE Descend(IF Head(fs) = SUCCESS THEN t.left ELSE t.right, Tail(fs))

RECURSIVE PathWeight(_, _)
\* The product of the branch percentages (percent on success, 100 - percent
\* on failure) along the outcomes fs from the root of t.
PathWeight(t, fs) ==
    IF fs = <<>> \/ IsLeaf(t) THEN 1
    ELSE IF Head(fs) = SUCCESS
         THEN t.data.percent * PathWeight(t.left, Tail(fs))
         ELSE (100 - t.data.percent) * PathWeight(t.right, Tail(fs))

RECURSIVE Pow(_, _)
Pow(b, e) == IF e = 0 THEN 1 ELSE b * Pow(b, e - 1)

SeqToSet(s) == {s[i] : i \in 1..Len(s)}

(***************************************************************************)
(* SpecTree: choose a bound, build the tree, walk it by coin flips.        *)
(***************************************************************************)

\* The registries a tree is declared into: an empty one, and one that
\* holds a trigger already.
Registries ==
    {<<>>, add_trigger(<<>>, TriggerName("-- Init --", 0, 0), TRUE, FALSE)}

InitTree ==
    /\ n \in (1 - NumRejected)..MaxN
    /\ tmgr \in Registries
    /\ tree = NoTree
    /\ err = "none"
    /\ node = NoTree
    /\ flips = <<>>
    /\ weight = 1
    /\ args = <<>>
    /\ caller = <<>> /\ ret = <<>>
    /\ tdata = <<>> /\ scn = <<>>
    /\ enabled = <<>> /\ vals = <<>> /\ pc = 0
    /\ timer = <<>> /\ observed = {} /\ evaluated = {} /\ fired = {} /\ ticks = 0

\* The call _declare_prob_tree(tmgr, n).
Build ==
    /\ tree = NoTree /\ err = "none"
    /\ LET d == declare_prob_tree(tmgr, n)
       IN  /\ tree' = d.tree
           /\ tmgr' = d.reg
           /\ err'  = d.err
           /\ node' = d.tree
    /\ UNCHANGED <<n, flips, weight, args, caller, ret, tdata, scn, engineVars>>

\* One coin flip at the split the walk stands on: success (probability
\* percent/100) takes the left branch, failure the right branch.
Flip(o) ==
    /\ tree # NoTree
    /\ ~IsLeaf(node)
    /\ node' = (IF o = SUCCESS THEN node.left ELSE node.right)
    /\ flips' = Append(flips, o)
    /\ weight' = weight * (IF o = SUCCESS THEN node.data.percent
                                          ELSE 100 - node.data.percent)
    /\ UNCHANGED <<n, tmgr, tree, err, args, caller, ret, tdata, scn, engineVars>>

FlipSuccess == Flip(SUCCESS)
FlipFailure == Flip(FAILURE)

NextTree == Build \/ FlipSuccess \/ FlipFailure

SpecTree == InitTree /\ [][NextTree]_vars

Built == tree # NoTree

(***************************************************************************)
(* SpecChance: the ChanceNode constructor called with any percentage and   *)
(* any two triggers of a registry.                                         *)
(***************************************************************************)

\* How far below 0 and above 100 the percentages tried reach.
MaxOutside == 3

\* Number of triggers in the registry the arguments are taken from.
NumHandles == 2

\* The arguments percent, success, failure of a call.
InitChance ==
    /\ args \in [percent : (0 - MaxOutside)..(100 + MaxOutside),
                 success : 1..NumHandles,
                 failure : 1..NumHandles]
    /\ n = 0 /\ tmgr = <<>> /\ tree = NoTree
    /\ err = "none" /\ node = NoNode /\ flips = <<>> /\ weight = 1
    /\ caller = <<>> /\ ret = <<>>
    /\ tdata = <<>> /\ scn = <<>>
    /\ enabled = <<>> /\ vals = <<>> /\ pc = 0
    /\ timer = <<>> /\ observed = {} /\ evaluated = {} /\ fired = {} /\ ticks = 0

\* The call ChanceNode(percent, success, failure).
Construct ==
    /\ pc = 0
    /\ LET c == new_ChanceNode(args.percent, args.success, args.failure)
       IN  err' = c.err /\ node' = c.node
    /\ pc' = 1
    /\ UNCHANGED <<n, tmgr, tree, flips, weight, args, caller, ret, tdata, scn>>
    /\ UNCHANGED <<enabled, vals, timer, observed, evaluated, fired, ticks>>

NextChance == Construct

SpecChance == InitChance /\ [][NextChance]_vars

(***************************************************************************)
(* Part 2: the Fisher-Yates test scenario of aoe2tetris.py: the triggers   *)
(* declared by TetrisData.__init__ and the conditions and effects that     *)
(* impl_triggers attaches to them.                                         *)
(***************************************************************************)

NUM_TETROMINO == 7   \* The number of different Tetris pieces.

NUM_PLAYERS == 9     \* PLAYERS: GAIA (0) and the players ONE..EIGHT (1..8).

TIMER_SECONDS == 5   \* The timer of 'Randomize And Place Test Row'.

\* A condition or an effect: its type and up to two arguments.
Item(type, a, b) == [type |-> type, a |-> a, b |-> b]

\* trigger.add_condition(...) / trigger.add_effect(...): one entry of the
\* wiring, in program order.
AddCondition(trigger, item) == [trigger |-> trigger, kind |-> "condition", item |-> item]
AddEffect(trigger, item) == [trigger |-> trigger, kind |-> "effect", item |-> item]

RECURSIVE declare_trees_from(_, _)
\* [_declare_prob_tree(tmgr, n) for n in range(from, 0, -1)].
declare_trees_from(from, reg) ==
    IF from < 1 THEN [trees |-> <<>>, reg |-> reg]
    ELSE LET d    == declare_prob_tree(reg, from)
             rest == declare_trees_from(from - 1, d.reg)
         IN  [trees |-> <<d.tree>> \o rest.trees, reg |-> rest.reg]

\* _declare_rand_int_triggers: the trees [t6, t5, t4, t3, t2, t1].
declare_rand_int_triggers(reg) == declare_trees_from(NUM_TETROMINO - 1, reg)

RECURSIVE declare_place_triggers(_, _)
\* The NUM_TETROMINO x NUM_TETROMINO placement triggers, slot by slot and
\* within a slot colour by colour (i counts them in row-major order).
declare_place_triggers(i, reg) ==
    IF i = NUM_TETROMINO * NUM_TETROMINO THEN reg
    ELSE declare_place_triggers(i + 1,
            add_trigger(reg,
                TriggerName("Place colour in slot", i % NUM_TETROMINO, i \div NUM_TETROMINO),
                FALSE, FALSE))

\* _declare_test_piece_triggers: the looping main trigger, then the
\* placement triggers; triggers[k][p] is indexed by slot k and colour p.
declare_test_piece_triggers(reg) ==
    LET reg1      == add_trigger(reg, TriggerName("Randomize And Place Test Row", 0, 0),
                                 TRUE, TRUE)
        main_loop == last_id(reg1)
    IN  [main_loop |-> main_loop,
         triggers  |-> [k \in 0..(NUM_TETROMINO - 1) |->
                          [p \in 0..(NUM_TETROMINO - 1) |->
                              main_loop + 1 + k * NUM_TETROMINO + p]],
         reg       |-> declare_place_triggers(0, reg1)]

\* _declare_variables / _add_score_variable: variable ids in declaration
\* order; row 0 of piece_vars holds the current pieces, row 1 the next.
piece_vars == [row \in 0..1 |-> [k \in 0..(NUM_TETROMINO - 1) |-> row * NUM_TETROMINO + k]]
score_var == 2 * NUM_TETROMINO
VariableIds == 0..score_var

\* Mutant: 'Fisher Yates Permutation' is declared after the trees.
TetrisData_activator_last ==
    LET r1 == add_trigger(<<>>, TriggerName("-- Init --", 0, 0), TRUE, FALSE)
        r2 == add_trigger(r1, TriggerName("Initialize Buildings", 0, 0), TRUE, FALSE)
        r3 == add_trigger(r2, TriggerName("Initialize Tetromino Variables TEST", 0, 0),
                          TRUE, FALSE)
        r4 == add_trigger(r3, TriggerName("Initialize Score", 0, 0), TRUE, FALSE)
        r5 == add_trigger(r4, TriggerName("-- Objectives --", 0, 0), TRUE, FALSE)
        r6 == add_trigger(r5, TriggerName("Score Objective", 0, 0), TRUE, FALSE)
        r7 == add_trigger(r6, TriggerName("-- Game Loop --", 0, 0), TRUE, FALSE)
        rt == declare_rand_int_triggers(r7)
        r8 == add_trigger(rt.reg, TriggerName("Fisher Yates Permutation", 0, 0), FALSE, FALSE)
        tp == declare_test_piece_triggers(r8)
    IN  [reg                   |-> tp.reg,
         init_buildings        |-> last_id(r2),
         test_init_var_trigger |-> last_id(r3),
         init_score            |-> last_id(r4),
         score_obj             |-> last_id(r6),
         activate_random       |-> last_id(r8),
         rand_int_trees        |-> rt.trees,
         main_loop             |-> tp.main_loop,
         create_triggers       |-> tp.triggers]

\* TetrisData.__init__ (aoe2tetris.py): every trigger of the scenario in
\* declaration order, and the handles the wiring uses.
TetrisData ==
    LET r1 == add_trigger(<<>>, TriggerName("-- Init --", 0, 0), TRUE, FALSE)
        r2 == add_trigger(r1, TriggerName("Initialize Buildings", 0, 0), TRUE, FALSE)
        r3 == add_trigger(r2, TriggerName("Initialize Tetromino Variables TEST", 0, 0),
                          TRUE, FALSE)
        r4 == add_trigger(r3, TriggerName("Initialize Score", 0, 0), TRUE, FALSE)
        r5 == add_trigger(r4, TriggerName("-- Objectives --", 0, 0), TRUE, FALSE)
        r6 == add_trigger(r5, TriggerName("Score Objective", 0, 0), TRUE, FALSE)
        r7 == add_trigger(r6, TriggerName("-- Game Loop --", 0, 0), TRUE, FALSE)
        r8 == add_trigger(r7, TriggerName("Fisher Yates Permutation", 0, 0), FALSE, FALSE)
        rt == declare_rand_int_triggers(r8)
        tp == declare_test_piece_triggers(rt.reg)
    IN  [reg                   |-> tp.reg,
         init_buildings        |-> last_id(r2),
         test_init_var_trigger |-> last_id(r3),
         init_score            |-> last_id(r4),
         score_obj             |-> last_id(r6),
         activate_random       |-> last_id(r8),
         rand_int_trees        |-> rt.trees,
         main_loop             |-> tp.main_loop,
         create_triggers       |-> tp.triggers]

TriggerIds == 1..Len(tdata.reg)

\* _impl_hotkeys: line of sight and ownership of the hotkey buildings.
impl_hotkeys ==
    [i \in 1..(2 * (NUM_PLAYERS - 1)) |->
        AddEffect(tdata.init_buildings,
                  Item("MODIFY_ATTRIBUTE", (i - 1) \div (NUM_PLAYERS - 1),
                       1 + ((i - 1) % (NUM_PLAYERS - 1))))]
    \o <<AddEffect(tdata.init_buildings, Item("CHANGE_OWNERSHIP", 2, 1)),
         AddEffect(tdata.init_buildings, Item("CHANGE_OWNERSHIP", 2, 0))>>

\* _impl_piece_vars: variable k of either row is set to k + 2.
impl_piece_vars ==
    [i \in 1..(2 * NUM_TETROMINO) |->
        LET row == (i - 1) \div NUM_TETROMINO
            k   == (i - 1) % NUM_TETROMINO
        IN  AddEffect(tdata.test_init_var_trigger,
                      Item("CHANGE_VARIABLE", piece_vars[row][k], k + 2))]

\* Mutant: the objective condition is added to a trigger that TetrisData
\* did not declare.
impl_objectives_undeclared ==
    <<AddEffect(tdata.init_score, Item("CHANGE_VARIABLE", 2 * NUM_TETROMINO, 0)),
      AddCondition(Len(tdata.reg) + 1, Item("PLAYER_DEFEATED", 0, 0))>>

\* _impl_objectives: the score starts at 0; the objective waits for a
\* defeat of GAIA.
impl_objectives ==
    <<AddEffect(tdata.init_score, Item("CHANGE_VARIABLE", score_var, 0)),
      AddCondition(tdata.score_obj, Item("PLAYER_DEFEATED", 0, 0))>>

\* Mutant: the leaf 0 adds a swap call like every other leaf.
ChildEffectsAlwaysSwap(child, trigger, success) ==
    <<AddEffect(trigger, Item("DEACTIVATE_TRIGGER", success, 0))>>
    \o (IF IsLeaf(child)
        THEN <<AddEffect(trigger,
                   Item("SCRIPT_CALL", piece_vars[0][0], piece_vars[0][child.data]))>>
        ELSE <<AddEffect(trigger, Item("ACTIVATE_TRIGGER", child.data.success, 0)),
               AddEffect(trigger, Item("ACTIVATE_TRIGGER", child.data.failure, 0))>>)

\* Mutant: a leaf assigns its value to slot 0 instead of swapping two slots.
ChildEffectsAssign(child, trigger, success) ==
    <<AddEffect(trigger, Item("DEACTIVATE_TRIGGER", success, 0))>>
    \o (IF IsLeaf(child)
        THEN <<AddEffect(trigger,
                   Item("CHANGE_VARIABLE", piece_vars[0][0], child.data))>>
        ELSE <<AddEffect(trigger, Item("ACTIVATE_TRIGGER", child.data.success, 0)),
               AddEffect(trigger, Item("ACTIVATE_TRIGGER", child.data.failure, 0))>>)

\* _impl_rand_tree, body of `for child, trigger in [(n.left, success),
\* (n.right, failure)]`: the trigger deactivates the success trigger of its
\* split; a leaf k != 0 adds the call swap(var_id0, var_id_k); an internal
\* child has both its triggers activated.
ChildEffects(child, trigger, success) ==
    <<AddEffect(trigger, Item("DEACTIVATE_TRIGGER", success, 0))>>
    \o (IF IsLeaf(child)
        THEN (IF child.data # 0
              THEN <<AddEffect(trigger,
                        Item("SCRIPT_CALL", piece_vars[0][0], piece_vars[0][child.data]))>>
              ELSE <<>>)
        ELSE <<AddEffect(trigger, Item("ACTIVATE_TRIGGER", child.data.success, 0)),
               AddEffect(trigger, Item("ACTIVATE_TRIGGER", child.data.failure, 0))>>)

\* _impl_rand_tree, one iteration of the while loop for the internal node t.
NodeWiring(t) ==
    <<AddCondition(t.data.success, Item("CHANCE", t.data.percent, 0))>>
    \o ChildEffects(t.left, t.data.success, t.data.success)
    \o ChildEffects(t.right, t.data.failure, t.data.success)

RECURSIVE impl_rand_tree(_)
\* _impl_rand_tree: the stack `nodes` pops the right child before the left.
impl_rand_tree(t) ==
    IF IsLeaf(t) THEN <<>>
    ELSE NodeWiring(t) \o impl_rand_tree(t.right) \o impl_rand_tree(t.left)

RECURSIVE impl_rand_trees_from(_)
\* _impl_rand_trees, the loop over the trees from index i on: the activator
\* activates both root triggers, then the tree is implemented.
impl_rand_trees_from(i) ==
    IF i > Len(tdata.rand_int_trees) THEN <<>>
    ELSE LET t == tdata.rand_int_trees[i]
         IN  <<AddEffect(tdata.activate_random, Item("ACTIVATE_TRIGGER", t.data.success, 0)),
               AddEffect(tdata.activate_random, Item("ACTIVATE_TRIGGER", t.data.failure, 0))>>
             \o impl_rand_tree(t)
             \o impl_rand_trees_from(i + 1)

impl_rand_trees == impl_rand_trees_from(1)

\* Mutant: a placement trigger deactivates only itself.
SlotDeactivationsSelfOnly(s, p) ==
    <<AddEffect(tdata.create_triggers[s][p],
                Item("DEACTIVATE_TRIGGER", tdata.create_triggers[s][p], 0))>>

\* _test_impl_piece_display: "Deactivates all triggers in the same slot".
SlotDeactivations(s, p) ==
    [q \in 1..NUM_TETROMINO |->
        AddEffect(tdata.create_triggers[s][p],
                  Item("DEACTIVATE_TRIGGER", tdata.create_triggers[s][q - 1], 0))]

\* _test_impl_piece_display, body of the loop over slot s and colour p.
PlaceWiring(s, p) ==
    LET t == tdata.create_triggers[s][p]
    IN  <<AddEffect(tdata.main_loop, Item("ACTIVATE_TRIGGER", t, 0)),
          AddCondition(t, Item("VARIABLE_VALUE", piece_vars[0][s], p + 2)),
          AddEffect(t, Item("CREATE_OBJECT", p + 2, s))>>
        \o SlotDeactivations(s, p)

RECURSIVE place_wiring_from(_)
place_wiring_from(i) ==
    IF i = NUM_TETROMINO * NUM_TETROMINO THEN <<>>
    ELSE PlaceWiring(i \div NUM_TETROMINO, i % NUM_TETROMINO) \o place_wiring_from(i + 1)

\* _test_impl_piece_display.
test_impl_piece_display ==
    <<AddCondition(tdata.main_loop, Item("TIMER", TIMER_SECONDS, 0))>>
    \o [p \in 1..NUM_TETROMINO |->
            AddEffect(tdata.main_loop, Item("REMOVE_OBJECT", p + 1, 0))]
    \o <<AddEffect(tdata.main_loop, Item("ACTIVATE_TRIGGER", tdata.activate_random, 0))>>
    \o impl_rand_trees
    \o place_wiring_from(0)

\* impl_triggers: every add_condition / add_effect call in program order.
impl_triggers ==
    impl_hotkeys \o impl_piece_vars \o impl_objectives \o test_impl_piece_display

\* The conditions (or effects) of trigger t among the entries w, in order.
ItemsOf(w, t, kind) ==
    LET sel == SelectSeq(w, LAMBDA x : x.trigger = t /\ x.kind = kind)
    IN  [i \in 1..Len(sel) |-> sel[i].item]

\* The scenario as written to the file: per trigger its declared flags, its
\* conditions and its effects, from the wiring entries w.
Scenario(w) ==
    [t \in TriggerIds |->
        [enabled    |-> tdata.reg[t].enabled,
         looping    |-> tdata.reg[t].looping,
         conditions |-> ItemsOf(w, t, "condition"),
         effects    |-> ItemsOf(w, t, "effect")]]

\* main of aoe2tetris.py: the triggers are declared, then implemented.
build ==
    /\ tdata = TetrisData
    /\ \E w \in {impl_triggers} : scn = Scenario(w)

(***************************************************************************)
(* Part 3: the trigger engine.  In every tick the engine goes through the  *)
(* trigger list in order; an enabled trigger whose conditions all hold     *)
(* fires: a trigger that is not looping is disabled, then its effects run  *)
(* in order.  A trigger enabled by an earlier trigger of the list fires in *)
(* the same tick, one enabled by a later trigger in the next tick.         *)
(***************************************************************************)

\* Number of ticks after which the engine is stopped.
MaxTicks == 10

\* Number of times a harness activates the tree or the bank it observes.
MaxActivations == 3

\* The triggers of scenario S with a Timer condition.
TimedOf(S) ==
    {t \in DOMAIN S :
        \E i \in 1..Len(S[t].conditions) : S[t].conditions[i].type = "TIMER"}

\* The triggers with a Timer condition.
TimedTriggers == DOMAIN timer

\* The condition types that are decided outside of the scenario: the coin
\* of a Chance condition, the predicate of a script call, the selection of
\* an object by the player.
ExternalConditions == {"CHANCE", "SCRIPT_CALL", "OBJECT_SELECTED"}

\* Trigger t has a condition that is decided outside of the scenario.
External(t) ==
    \E i \in 1..Len(scn[t].conditions) :
        scn[t].conditions[i].type \in ExternalConditions

\* The triggers of tree number i of rand_int_trees, and of all the trees.
TreeTriggers(i) == OwnedTriggers(tdata.rand_int_trees[i])
TreeTriggerIds == UNION {TreeTriggers(i) : i \in 1..Len(tdata.rand_int_trees)}

\* swap(id0, id1) of the script: exchanges the values of two variables.
swap(v, id0, id1) == [v EXCEPT ![id0] = v[id1], ![id1] = v[id0]]

\* Whether condition c of trigger t holds (an external condition is decided
\* by the step, GAIA is never defeated).
Holds(c, t) ==
    CASE c.type = "TIMER"           -> timer[t] >= c.a
      [] c.type = "VARIABLE_VALUE"  -> vals[c.a] = c.b
      [] c.type = "PLAYER_DEFEATED" -> FALSE
      [] OTHER                      -> TRUE

\* Trigger t is enabled and all its conditions other than the external ones
\* hold.
Ready(t) ==
    /\ enabled[t]
    /\ \A i \in 1..Len(scn[t].conditions) : Holds(scn[t].conditions[i], t)

\* The triggers the current tick can still fire now.
ReadyAhead == {t \in DOMAIN scn : t >= pc /\ Ready(t)}

\* The ready triggers ahead that have no external condition: they fire when
\* the sweep reaches them.
CertainAhead == {t \in ReadyAhead : ~External(t)}

\* The triggers that can be the next to fire in this tick: the first ready
\* trigger without an external condition, and every ready trigger before
\* it (the external conditions of the ready triggers that the sweep passes
\* without firing them are false in this tick; such a trigger does not
\* fire and stays enabled).
CanFireNext ==
    {t \in ReadyAhead : \A u \in CertainAhead : t <= u}

\* One effect applied to the flags and variables st.
ApplyEffect(e, st) ==
    CASE e.type = "ACTIVATE_TRIGGER"   -> [st EXCEPT !.enabled[e.a] = TRUE]
      [] e.type = "DEACTIVATE_TRIGGER" -> [st EXCEPT !.enabled[e.a] = FALSE]
      [] e.type = "CHANGE_VARIABLE"    -> [st EXCEPT !.vals[e.a] = e.b]
      [] e.type = "SCRIPT_CALL"        -> [st EXCEPT !.vals = swap(st.vals, e.a, e.b)]
      [] OTHER                         -> st

RECURSIVE ApplyRange(_, _, _, _)
\* The effects effs[lo], ..., effs[hi] applied in order to st (the range is
\* halved: first the lower half is applied, then the upper half).
ApplyRange(effs, lo, hi, st) ==
    IF lo > hi THEN st
    ELSE IF lo = hi THEN ApplyEffect(effs[lo], st)
    ELSE CHOOSE r \in {ApplyRange(effs, ((lo + hi) \div 2) + 1, hi, l) :
                           l \in {ApplyRange(effs, lo, (lo + hi) \div 2, st)}} : TRUE

\* The effects of a trigger applied in order.
ApplyEffects(effs, st) == ApplyRange(effs, 1, Len(effs), st)

\* Trigger t fires: unless it loops it is disabled, then its effects run.
Fire(t) ==
    LET st == ApplyEffects(scn[t].effects,
                  [enabled |-> [enabled EXCEPT ![t] = scn[t].looping],
                   vals    |-> vals])
    IN  /\ enabled' = st.enabled
        /\ vals' = st.vals
        /\ timer' = [u \in TimedTriggers |-> IF u = t THEN 0 ELSE timer[u]]
        /\ fired' = fired \cup ({t} \cap observed)

\* Trigger t fires in the list-order sweep of the tick.
DoFire(t) ==
    /\ Fire(t)
    /\ pc' = t + 1
    /\ UNCHANGED <<observed, evaluated, ticks>>

\* The sweep reaches a ready trigger without external condition: it fires.
FireTrigger ==
    \E t \in CanFireNext :
        /\ ~External(t)
        /\ DoFire(t)
        /\ UNCHANGED treeVars

\* The sweep reaches a ready trigger whose Chance condition succeeds: it
\* fires.
ChancePasses ==
    \E t \in CanFireNext :
        /\ External(t)
        /\ DoFire(t)
        /\ UNCHANGED treeVars

\* No trigger fires in the rest of the sweep (the external conditions of
\* the ready triggers left are false): the next tick begins.
EndTick ==
    /\ CertainAhead = {}
    /\ ticks < MaxTicks
    /\ pc' = 1
    /\ timer' = [u \in TimedTriggers |->
                    IF enabled[u] /\ timer[u] < TIMER_SECONDS THEN timer[u] + 1 ELSE timer[u]]
    /\ fired' = {}
    /\ ticks' = ticks + 1
    /\ UNCHANGED <<enabled, vals, observed, evaluated, treeVars>>

\* The tree variables are not used by the engine specifications.
TreeIdle ==
    /\ n = 0 /\ tmgr = <<>> /\ tree = NoTree /\ err = "none"
    /\ node = NoTree /\ flips = <<>> /\ weight = 1 /\ args = <<>>
    /\ caller = <<>> /\ ret = <<>>

\* The scenario as loaded: the declared flags, every variable 0.
InitFY ==
    /\ TreeIdle
    /\ build
    /\ enabled = [t \in TriggerIds |-> scn[t].enabled]
    /\ vals = [v \in VariableIds |-> 0]
    /\ pc = 1
    /\ timer = [u \in TimedOf(scn) |-> 0]
    /\ observed = TriggerIds \ TreeTriggerIds
    /\ evaluated = {}
    /\ fired = {}
    /\ ticks = 0

NextFY == FireTrigger \/ ChancePasses \/ EndTick

SpecFY == InitFY /\ [][NextFY]_vars

(***************************************************************************)
(* Harnesses: one tree, or one placement bank, of the scenario driven on   *)
(* its own.                                                                *)
(***************************************************************************)

\* The flags and variables after trigger t fired in st.
FireOn(t, st) ==
    ApplyEffects(scn[t].effects,
                 [enabled |-> [st.enabled EXCEPT ![t] = scn[t].looping],
                  vals    |-> st.vals])

RECURSIVE FireAll(_, _)
\* The triggers of the sequence ts fired one after the other from st.
FireAll(ts, st) ==
    IF ts = <<>> THEN st ELSE FireAll(Tail(ts), FireOn(Head(ts), st))

\* The scenario after its first tick (every trigger that is declared
\* enabled and has no condition has fired), with the looping test trigger
\* switched off: a harness activates the tree or the bank itself.
HarnessState ==
    LET loaded == [enabled |-> [t \in TriggerIds |-> scn[t].enabled],
                   vals    |-> [v \in VariableIds |-> 0]]
        first  == SelectSeq([t \in 1..Len(tdata.reg) |-> t],
                            LAMBDA t : scn[t].enabled
                                       /\ scn[t].conditions = <<>>)
        st     == FireAll(first, loaded)
    IN  [st EXCEPT !.enabled[tdata.main_loop] = FALSE]

\* The effects of trigger t that (de)activate a trigger of the set ts.
EffectsOn(t, ts) == SelectSeq(scn[t].effects, LAMBDA e : e.a \in ts)

\* One tree of rand_int_trees is observed; nothing is enabled yet.
InitTreeRun ==
    /\ TreeIdle
    /\ build
    /\ \E i \in 1..Len(tdata.rand_int_trees) : observed = TreeTriggers(i)
    /\ \E h \in {HarnessState} : enabled = h.enabled /\ vals = h.vals
    /\ pc = 1
    /\ timer = [u \in TimedOf(scn) |-> 0]
    /\ evaluated = {}
    /\ fired = {}
    /\ ticks = 0

\* At the start of a tick 'Fisher Yates Permutation' activates the success
\* and the failure trigger of the root of the observed tree.
ActivateRoots ==
    /\ pc = 1
    /\ ticks < MaxActivations
    /\ \A t \in observed : ~enabled[t]
    /\ enabled' = ApplyEffects(EffectsOn(tdata.activate_random, observed),
                               [enabled |-> enabled, vals |-> vals]).enabled
    /\ UNCHANGED <<vals, pc, timer, observed, evaluated, fired, ticks, treeVars>>

NextTreeRun == ActivateRoots \/ FireTrigger \/ ChancePasses \/ EndTick

SpecTreeRun == InitTreeRun /\ [][NextTreeRun]_vars

\* The placement triggers of slot s.
Bank(s) == {tdata.create_triggers[s][p] : p \in 0..(NUM_TETROMINO - 1)}

\* The bank of one slot is observed; the slots hold a rotation of their
\* initial values and 'Randomize And Place Test Row' has just fired.
InitBank ==
    /\ TreeIdle
    /\ build
    /\ \E s \in 0..(NUM_TETROMINO - 1) : observed = Bank(s)
    /\ \E h \in {HarnessState}, r \in 0..(NUM_TETROMINO - 1) :
        \E rotated \in {[v \in VariableIds |->
                            IF v < NUM_TETROMINO
                            THEN h.vals[piece_vars[0][(v + r) % NUM_TETROMINO]]
                            ELSE h.vals[v]]} :
            \E st \in {FireOn(tdata.main_loop,
                               [enabled |-> h.enabled, vals |-> rotated])} :
                enabled = st.enabled /\ vals = st.vals
    /\ pc = 1
    /\ timer = [u \in TimedOf(scn) |-> 0]
    /\ evaluated = {}
    /\ fired = {}
    /\ ticks = 0

\* The engine evaluates a member of the observed bank that it has not yet
\* evaluated in this tick, in any order: the member is ready and fires.
EvalFires ==
    \E t \in observed \ evaluated :
        /\ Ready(t)
        /\ Fire(t)
        /\ evaluated' = evaluated \cup {t}
        /\ UNCHANGED <<pc, observed, ticks, treeVars>>

\* The member evaluated is disabled or its condition is false: nothing
\* happens.
EvalSkips ==
    \E t \in observed \ evaluated :
        /\ ~Ready(t)
        /\ evaluated' = evaluated \cup {t}
        /\ UNCHANGED <<enabled, vals, pc, timer, observed, fired, ticks, treeVars>>

\* Every member has been evaluated: the next loop iteration begins with
\* 'Randomize And Place Test Row' firing again.
NextIteration ==
    /\ evaluated = observed
    /\ ticks < MaxActivations
    /\ LET st == FireOn(tdata.main_loop, [enabled |-> enabled, vals |-> vals])
       IN  enabled' = st.enabled /\ vals' = st.vals
    /\ evaluated' = {}
    /\ fired' = {}
    /\ ticks' = ticks + 1
    /\ UNCHANGED <<pc, timer, observed, treeVars>>

NextBank == EvalFires \/ EvalSkips \/ NextIteration

SpecBank == InitBank /\ [][NextBank]_vars

(***************************************************************************)
(* SpecTreeOrder: one tree of the scenario, activated once, with the coin  *)
(* of every split fixed, under an engine that evaluates the enabled        *)
(* triggers once per tick in any order.                                    *)
(***************************************************************************)

\* The success triggers of the splits of tree t.
SuccessTriggers(t) == {Splits(t)[i].success : i \in 1..Len(Splits(t))}

\* The condition of trigger t that is decided by a coin holds: the coin of
\* its split succeeds (a trigger without such a condition always passes).
CoinPasses(t) == External(t) => flips[t] = SUCCESS

\* One tree is observed; 'Fisher Yates Permutation' has just activated the
\* triggers of its root (args keeps the flags and registers of this
\* moment); the coin of every split is fixed.
InitTreeOrder ==
    /\ n = 0 /\ tmgr = <<>> /\ tree = NoTree /\ err = "none"
    /\ node = NoTree /\ weight = 1
    /\ caller = <<>> /\ ret = <<>>
    /\ build
    /\ \E i \in 1..Len(tdata.rand_int_trees) :
          /\ observed = TreeTriggers(i)
          /\ flips \in [SuccessTriggers(tdata.rand_int_trees[i]) -> Outcomes]
    /\ \E h \in {HarnessState} :
          /\ enabled = ApplyEffects(EffectsOn(tdata.activate_random, observed), h).enabled
          /\ vals = h.vals
    /\ args = [enabled |-> enabled, vals |-> vals]
    /\ pc = 1
    /\ timer = [u \in TimedOf(scn) |-> 0]
    /\ evaluated = {}
    /\ fired = {}
    /\ ticks = 0

\* The engine evaluates an enabled trigger of the tree that it has not yet
\* evaluated in this tick, and the trigger fires.  Each trigger that the
\* firing activates comes either later in the order of the engine (it is
\* evaluated in this tick) or earlier (the engine passed it while it was
\* disabled: it is evaluated in the next tick).  `fired` collects the
\* triggers that fired since the activation.
OrderFires ==
    \E t \in observed \ evaluated :
        /\ Ready(t) /\ CoinPasses(t)
        /\ Fire(t)
        /\ \E P \in SUBSET {u \in observed \ evaluated : ~enabled[u] /\ enabled'[u]} :
              evaluated' = evaluated \cup {t} \cup P
        /\ UNCHANGED <<pc, observed, ticks, treeVars>>

\* The trigger evaluated is enabled and its coin fails: nothing happens.
OrderSkips ==
    \E t \in observed \ evaluated :
        /\ Ready(t) /\ ~CoinPasses(t)
        /\ evaluated' = evaluated \cup {t}
        /\ UNCHANGED <<enabled, vals, pc, timer, observed, fired, ticks, treeVars>>

\* Every enabled trigger of the tree has been evaluated in this tick and
\* some are still enabled: the next tick begins.
OrderNextTick ==
    /\ \A t \in observed : enabled[t] => t \in evaluated
    /\ \E t \in observed : enabled[t]
    /\ evaluated' = {}
    /\ UNCHANGED <<enabled, vals, pc, timer, observed, fired, ticks, treeVars>>

NextTreeOrder == OrderFires \/ OrderSkips \/ OrderNextTick

SpecTreeOrder == InitTreeOrder /\ [][NextTreeOrder]_vars

(***************************************************************************)
(* Part 4: the game scenario of tetrisdata.py: the triggers declared by    *)
(* its TetrisData.__init__ (the phase scheduler, the input capture, the    *)
(* sequence shuffles and the render triggers) for a board of Rows x Cols   *)
(* tiles.                                                                  *)
(***************************************************************************)

\* Number of rows and of columns of the board, number of its rows from
\* which on rows can be cleared.
Rows == 2
Cols == 1
Visible == 1

NUM_DIRECTION == 4   \* Direction: U, R, D, L.

NUM_ACTION == 8      \* HOTKEY_BUILDINGS: one building per Action.

NUM_NEXT == 3        \* The boards of the next three Tetrominos.

INIT_SEQ == 1234567  \* Tetromino.init_seq(): the Tetrominos 1..7 in order.

INIT_ROW == 19       \* One row above the first visible row.

INIT_COL == 4        \* Left-center column.

\* Binds x to the value of v in F(x): v is computed once.
Bind(v, F(_)) == CHOOSE r \in {F(x) : x \in {v}} : TRUE

\* The ids of the triggers declared from registry `before` to registry
\* `after`, in declaration order.
Declared(before, after) ==
    [i \in 1..(Len(after) - Len(before)) |-> Len(before) + i]

\* A comprehension of tmgr.add_trigger(name, enabled=False) calls.
declare_list(reg, names) ==
    reg \o [i \in 1..Len(names) |->
                [name |-> names[i], enabled |-> FALSE, looping |-> FALSE]]

\* _declare_sequence_init(tmgr, pre): the trees [t6, ..., t1] with `pre`
\* prepended to the names of their triggers.
declare_sequence_init(reg, pre) ==
    Bind(declare_rand_int_triggers(reg), LAMBDA d :
        [trees |-> d.trees,
         reg   |-> [i \in 1..Len(d.reg) |->
                      IF i <= Len(reg) THEN d.reg[i]
                      ELSE [d.reg[i] EXCEPT !.name = [pre |-> pre, name |-> @]]]])

\* Mutant: the triggers are declared in the reverse order of
\* HOTKEY_BUILDINGS.
declare_selection_triggers_reversed(reg) ==
    reg \o [a \in 1..NUM_ACTION |->
               [name |-> TriggerName("Select", NUM_ACTION + 1 - a, 0),
                enabled |-> FALSE, looping |-> FALSE]]

\* _declare_selection_triggers: one trigger per hotkey building, in the
\* order of HOTKEY_BUILDINGS (the building of Action a is the a-th).
declare_selection_triggers(reg) ==
    declare_list(reg, [a \in 1..NUM_ACTION |-> TriggerName("Select", a, 0)])

\* Mutant: the render triggers of the board are declared enabled.
declare_render_triggers_enabled(reg, rows, cols) ==
    reg \o [i \in 1..((rows - (rows \div 2)) * cols * NUM_DIRECTION * (NUM_TETROMINO + 1)) |->
               [name |-> TriggerName("Render",
                            <<(rows \div 2) + ((i - 1) \div (cols * NUM_DIRECTION * (NUM_TETROMINO + 1))),
                              ((i - 1) \div (NUM_DIRECTION * (NUM_TETROMINO + 1))) % cols>>,
                            <<((i - 1) \div (NUM_TETROMINO + 1)) % NUM_DIRECTION,
                              (i - 1) % (NUM_TETROMINO + 1)>>),
                enabled |-> TRUE, looping |-> FALSE]]

\* _declare_render_triggers: one trigger per row r in rows // 2 .. rows - 1,
\* column c, direction d and t in 0..Tetromino.num(), in this nesting.
declare_render_triggers(reg, rows, cols) ==
    LET per_c == NUM_DIRECTION * (NUM_TETROMINO + 1)
    IN  declare_list(reg,
            [i \in 1..((rows - (rows \div 2)) * cols * per_c) |->
                TriggerName("Render",
                    <<(rows \div 2) + ((i - 1) \div (cols * per_c)),
                      ((i - 1) \div per_c) % cols>>,
                    <<((i - 1) \div (NUM_TETROMINO + 1)) % NUM_DIRECTION,
                      (i - 1) % (NUM_TETROMINO + 1)>>)])

\* _declare_render_next_triggers: per next board one trigger per Tetromino.
declare_render_next_triggers(reg) ==
    declare_list(reg,
        [i \in 1..(NUM_NEXT * NUM_TETROMINO) |->
            TriggerName("Render next", (i - 1) \div NUM_TETROMINO,
                        1 + ((i - 1) % NUM_TETROMINO))])

\* Mutant: the render triggers of the hold board are declared enabled.
declare_render_hold_triggers_enabled(reg) ==
    reg \o [i \in 1..(NUM_TETROMINO + 1) |->
               [name |-> TriggerName("Render hold", i - 1, 0),
                enabled |-> TRUE, looping |-> FALSE]]

\* _declare_render_hold_triggers: one trigger per t in 0..Tetromino.num().
declare_render_hold_triggers(reg) ==
    declare_list(reg, [i \in 1..(NUM_TETROMINO + 1) |->
                            TriggerName("Render hold", i - 1, 0)])

\* _declare_explode_row_triggers: one trigger per row in visible..rows - 1.
declare_explode_row_triggers(reg, rows, visible) ==
    declare_list(reg, [i \in 1..(rows - visible) |->
                            TriggerName("Explode Row", visible + i - 1, 0)])

\* _declare_clear_row_triggers: one trigger per row in visible..rows - 1.
declare_clear_row_triggers(reg, rows, visible) ==
    declare_list(reg, [i \in 1..(rows - visible) |->
                            TriggerName("Clear Row", visible + i - 1, 0)])

\* A trigger as tmgr.add_trigger(name, enabled=..., looping=...) declares it.
Trigger(label, is_enabled, is_looping) ==
    [name |-> TriggerName(label, 0, 0), enabled |-> is_enabled, looping |-> is_looping]

\* Mutant: 'Can Begin Game' is declared disabled.
declare_can_begin_disabled == Trigger("Can Begin Game", FALSE, FALSE)

\* tmgr.add_trigger("Can Begin Game"): enabled, not looping.
declare_can_begin == Trigger("Can Begin Game", TRUE, FALSE)

\* TetrisData.__init__, '-- Init --' to 'Begin Game'.
begin_section(reg) ==
    [reg |-> reg \o <<Trigger("-- Init --", FALSE, FALSE),
                      Trigger("Init Scenario", TRUE, FALSE),
                      Trigger("-- Objectives --", FALSE, FALSE),
                      Trigger("Game Over Objective", FALSE, FALSE),
                      Trigger("New Game Instructions Objective", TRUE, FALSE),
                      Trigger("Stats Objective", FALSE, FALSE),
                      Trigger("-- Begin Game --", FALSE, FALSE),
                      declare_can_begin,
                      Trigger("Begin Game", FALSE, FALSE)>>,
     init_scenario       |-> Len(reg) + 2,
     game_over_objective |-> Len(reg) + 4,
     new_game_objective  |-> Len(reg) + 5,
     stat_obj            |-> Len(reg) + 6,
     can_begin           |-> Len(reg) + 8,
     begin_game          |-> Len(reg) + 9]

\* Mutant: the 'Game Loop' trigger does not loop.
declare_game_loop_one_shot(reg) == reg \o <<Trigger("Game Loop", FALSE, FALSE)>>

\* tmgr.add_trigger("Game Loop", enabled=False, looping=True).
declare_game_loop(reg) == reg \o <<Trigger("Game Loop", FALSE, TRUE)>>

\* TetrisData.__init__, 'Begin Game Middle' to 'Activate Shuffle'.
loop_section(reg) ==
    LET r1 == declare_game_loop(
                  reg \o <<Trigger("Begin Game Middle", FALSE, FALSE),
                           Trigger("-- Game Loop --", TRUE, FALSE)>>)
        r2 == declare_selection_triggers(r1)
    IN  [reg |-> r2 \o <<Trigger("New Game", FALSE, FALSE),
                         Trigger("Update", FALSE, FALSE),
                         Trigger("Activate Shuffle", FALSE, FALSE)>>,
         begin_game_mid     |-> Len(reg) + 1,
         game_loop          |-> Len(reg) + 3,
         selection_triggers |-> Declared(r1, r2),
         new_game           |-> Len(r2) + 1,
         update             |-> Len(r2) + 2,
         shuffle            |-> Len(r2) + 3]

\* Mutant: 'Cleanup' is declared looping.
declare_cleanup_looping == Trigger("Cleanup", FALSE, TRUE)

\* tmgr.add_trigger("Cleanup", enabled=False): disabled, not looping.
declare_cleanup == Trigger("Cleanup", FALSE, FALSE)

\* TetrisData.__init__, '-- Rendering --' to 'Begin Game End'.
render_section(reg, rows, cols, visible) ==
    LET r0 == reg \o <<Trigger("-- Rendering --", TRUE, FALSE)>>
        r1 == declare_clear_row_triggers(r0, rows, visible)
        r2 == declare_render_triggers(r1, rows, cols)
        r3 == declare_render_next_triggers(r2)
        r4 == declare_render_hold_triggers(r3)
        r5 == declare_explode_row_triggers(r4, rows, visible)
    IN  [reg |-> r5 \o <<Trigger("React Tetris", FALSE, FALSE),
                         Trigger("React Move", FALSE, FALSE),
                         Trigger("React Hold", FALSE, FALSE),
                         Trigger("React Hold Fail", FALSE, FALSE),
                         Trigger("React Lock", FALSE, FALSE),
                         Trigger("Game Over", FALSE, FALSE),
                         Trigger("React Game Over", FALSE, FALSE),
                         Trigger("React Game Over Easter Egg", FALSE, FALSE),
                         Trigger("-- Ending Game Loop --", TRUE, FALSE),
                         declare_cleanup,
                         Trigger("Begin Game End", FALSE, FALSE)>>,
         clear_rows             |-> Declared(r0, r1),
         render_triggers        |-> Declared(r1, r2),
         render_next_triggers   |-> Declared(r2, r3),
         render_hold_triggers   |-> Declared(r3, r4),
         explode_rows           |-> Declared(r4, r5),
         react_tetris           |-> Len(r5) + 1,
         react_move             |-> Len(r5) + 2,
         react_hold             |-> Len(r5) + 3,
         react_hold_fail        |-> Len(r5) + 4,
         react_lock             |-> Len(r5) + 5,
         game_over              |-> Len(r5) + 6,
         react_game_over        |-> Len(r5) + 7,
         react_game_over_easter |-> Len(r5) + 8,
         cleanup                |-> Len(r5) + 10,
         begin_game_end         |-> Len(r5) + 11]

\* Mutant: every variable is declared with the initial value 0.
VariablesAllZero(rows) ==
    [score |-> 0, selected |-> 1, sequences |-> <<2, 3>>, seq_index |-> 4,
     facing |-> 5, row |-> 6, col |-> 7,
     board_tiles |-> [r \in 1..rows |-> <<8 + 2 * (r - 1), 9 + 2 * (r - 1)>>],
     init |-> [v \in 0..(7 + 2 * rows) |-> 0]]

\* Variables.__init__: the variable ids in declaration order, with two
\* board variables per row (the board has `rows` rows), and the initial
\* value each variable is declared with.
Variables(rows) ==
    [score |-> 0, selected |-> 1, sequences |-> <<2, 3>>, seq_index |-> 4,
     facing |-> 5, row |-> 6, col |-> 7,
     board_tiles |-> [r \in 1..rows |-> <<8 + 2 * (r - 1), 9 + 2 * (r - 1)>>],
     init |-> [v \in 0..(7 + 2 * rows) |->
                  CASE v \in {2, 3} -> INIT_SEQ
                    [] v = 6       -> INIT_ROW
                    [] v = 7       -> INIT_COL
                    [] OTHER       -> 0]]

\* TetrisData.__init__ of tetrisdata.py: every trigger of the scenario in
\* declaration order, and the handles to them.
tetrisdata_TetrisData(rows, cols, visible) ==
    Bind(begin_section(<<>>), LAMBDA a :
    Bind(declare_sequence_init(a.reg, "Init a"), LAMBDA s0 :
    Bind(loop_section(s0.reg), LAMBDA b :
    Bind(declare_sequence_init(b.reg, "Init b"), LAMBDA s1 :
    Bind(render_section(s1.reg, rows, cols, visible), LAMBDA c :
        [reg                    |-> c.reg,
         variables              |-> Variables(rows),
         init_scenario          |-> a.init_scenario,
         game_over_objective    |-> a.game_over_objective,
         new_game_objective     |-> a.new_game_objective,
         stat_obj               |-> a.stat_obj,
         can_begin              |-> a.can_begin,
         begin_game             |-> a.begin_game,
         seq_init0              |-> s0.trees,
         begin_game_mid         |-> b.begin_game_mid,
         game_loop              |-> b.game_loop,
         selection_triggers     |-> b.selection_triggers,
         new_game               |-> b.new_game,
         update                 |-> b.update,
         shuffle                |-> b.shuffle,
         seq_init1              |-> s1.trees,
         clear_rows             |-> c.clear_rows,
         render_triggers        |-> c.render_triggers,
         render_next_triggers   |-> c.render_next_triggers,
         render_hold_triggers   |-> c.render_hold_triggers,
         explode_rows           |-> c.explode_rows,
         react_tetris           |-> c.react_tetris,
         react_move             |-> c.react_move,
         react_hold             |-> c.react_hold,
         react_hold_fail        |-> c.react_hold_fail,
         react_lock             |-> c.react_lock,
         game_over              |-> c.game_over,
         react_game_over        |-> c.react_game_over,
         react_game_over_easter |-> c.react_game_over_easter,
         cleanup                |-> c.cleanup,
         begin_game_end         |-> c.begin_game_end])))))

(***************************************************************************)
(* The pieces (tetromino.py), the directions (direction.py), the actions   *)
(* (action.py) and the calls of the xs script (xscalls.py).  A call string *)
(* is modelled by its parts: the suffix of the function that wraps the     *)
(* call, the name of the xs function and the parameters (the decimal       *)
(* strings of integers are modelled by the integers).                      *)
(***************************************************************************)

\* An absent value (None).
None == "None"

\* Mutant: the values of the pieces start at 0.
TetrominoValueFromZero ==
    [L |-> 0, Z |-> 1, S |-> 2, O |-> 3, I |-> 4, T |-> 5, J |-> 6]

\* class Tetromino(Enum): the value of each piece.
TetrominoValue ==
    [L |-> 1, Z |-> 2, S |-> 3, O |-> 4, I |-> 5, T |-> 6, J |-> 7]

\* list(Tetromino): the pieces.
Tetrominos == DOMAIN TetrominoValue

\* Tetromino(v): the piece with value v.
Tetromino(v) == CHOOSE t \in Tetrominos : TetrominoValue[t] = v

\* _FROM_INT: maps the value of each piece to the piece.
FROM_INT ==
    [v \in {TetrominoValue[t] : t \in Tetrominos} |->
        CHOOSE t \in Tetrominos : TetrominoValue[t] = v]

\* Tetromino.from_int(t): the piece, or a ValueError.
from_int(t) ==
    IF t \notin DOMAIN FROM_INT
    THEN [err |-> "ValueError", value |-> None]
    ELSE [err |-> "none", value |-> FROM_INT[t]]

\* class Direction(Enum): the value of each direction, and list(Direction).
DirectionValue == [U |-> 0, R |-> 1, D |-> 2, L |-> 3]
Directions == <<"U", "R", "D", "L">>

\* class Action(Enum): the value of each action.
ActionValue ==
    [MOVE_LEFT |-> 1, MOVE_RIGHT |-> 2, ROTATE_CLOCKWISE |-> 3,
     ROTATE_COUNTERCLOCKWISE |-> 4, SOFT_DROP |-> 5, HARD_DROP |-> 6,
     HOLD |-> 7, NEW_GAME |-> 8]

\* SEQ_NUMS: the indices of the shuffled Tetromino sequences.
SEQ_NUMS == {0, 1}

\* No call string is returned.
NoCall == [none |-> TRUE]

\* ScriptCaller.__init__: self._suffix = -1.
new_ScriptCaller == [suffix |-> 0 - 1]

\* The outcome of a method that raises error e: nothing is returned and the
\* caller is as before.
Raises(self, e) == [err |-> e, self |-> self, call |-> NoCall]

\* The outcome of a method that returns the string
\* "void _<suffix>() { name(params); }" and leaves the caller with `suffix`.
Returns(suffix, name, params) ==
    [err  |-> "none",
     self |-> [suffix |-> suffix],
     call |-> [suffix |-> suffix, name |-> name, params |-> params]]

\* Mutant: init_xs_state starts the numbering again.
init_xs_state_restarting(self) == Returns(0, "initXsState", <<>>)

\* ScriptCaller.init_xs_state.
init_xs_state(self) == Returns(self.suffix + 1, "initXsState", <<>>)

\* Mutant: _call_function without its assertion.
call_function_unchecked(self, name, params) ==
    Returns(self.suffix + 1, name, params)

\* ScriptCaller._call_function: asserts that the suffix is nonnegative,
\* increments it and returns the call string.
call_function(self, name, params) ==
    IF ~(self.suffix > 0 - 1) THEN Raises(self, "AssertionError")
    ELSE Returns(self.suffix + 1, name, params)

\* The methods without parameters and the xs function each of them calls.
NoParameterMethods ==
    [begin_game |-> "beginGame", begin_game_mid |-> "beginGameMid",
     init_game_loop |-> "initGameLoop",
     can_start_new_game |-> "canStartNewGame", update |-> "update",
     shuffle |-> "canGenerateSecondSequence", is_game_over |-> "isGameOver",
     can_react_tetris |-> "canReactTetris", can_react_move |-> "canReactMove",
     can_react_hold |-> "canReactHold",
     can_react_hold_fail |-> "canReactHoldFail",
     can_react_game_over |-> "canReactGameOver",
     can_react_game_over_easter |-> "canReactGameOverEasterEgg",
     ack_game_over_easter |-> "ackGameOverEasterEgg",
     can_react_lock |-> "canReactLockdown", test |-> "test"]

\* A method without parameters, e.g. ScriptCaller.begin_game.
call_no_parameters(self, method) ==
    call_function(self, NoParameterMethods[method], <<>>)

\* ScriptCaller.swap_seq_values: the arguments are checked first.
swap_seq_values(self, seq_num, i, j) ==
    IF seq_num \notin SEQ_NUMS THEN Raises(self, "ValueError")
    ELSE IF i < 0 \/ i > 6 THEN Raises(self, "ValueError")
    ELSE IF j < 0 \/ j > 6 THEN Raises(self, "ValueError")
    ELSE call_function(self, "swapSeqValues", <<seq_num, i, j>>)

\* Mutant: an unoccupied tile is passed as 1.
can_render_tile_none_as_one(self, index, facing, tetromino) ==
    call_function(self, "canRenderTile",
        <<index[1], index[2], DirectionValue[facing],
          IF tetromino = None THEN 1 ELSE TetrominoValue[tetromino]>>)

\* ScriptCaller.can_render_tile: row, column, value of the direction, and
\* the value of the piece or 0 for an unoccupied tile.
can_render_tile(self, index, facing, tetromino) ==
    call_function(self, "canRenderTile",
        <<index[1], index[2], DirectionValue[facing],
          IF tetromino = None THEN 0 ELSE TetrominoValue[tetromino]>>)

\* ScriptCaller.select_building.
select_building(self, action) ==
    call_function(self, "selectBuilding",
        <<IF action = None THEN 0 ELSE ActionValue[action]>>)

\* ScriptCaller.can_render_next: the index is checked first.
can_render_next(self, index, t) ==
    IF index \notin {0, 1, 2} THEN Raises(self, "ValueError")
    ELSE call_function(self, "canRenderNext", <<index, TetrominoValue[t]>>)

\* Mutant: an empty hold board is passed as 7.
can_render_hold_none_as_seven(self, t) ==
    call_function(self, "canRenderHold",
        <<IF t # None THEN TetrominoValue[t] ELSE 7>>)

\* ScriptCaller.can_render_hold: the value of the piece, or 0 for None.
can_render_hold(self, t) ==
    call_function(self, "canRenderHold",
        <<IF t # None THEN TetrominoValue[t] ELSE 0>>)

\* ScriptCaller.can_explode and ScriptCaller.can_clear_explode.
can_explode(self, row) == call_function(self, "canExplode", <<row>>)
can_clear_explode(self, row) == call_function(self, "canClearExplode", <<row>>)

\* The key of a render trigger in the dictionary _declare_render_triggers
\* returns: (Index(r, c), d, None if t == 0 else Tetromino(t)).
render_key(r, c, d, t) ==
    [index |-> <<r, c>>, facing |-> d,
     tetromino |-> IF t = 0 THEN None ELSE Tetromino(t)]

(***************************************************************************)
(* The wiring of the game scenario: the conditions and effects of the      *)
(* phase scheduler, of the input capture, of the sequence trees and of the *)
(* render triggers.  A script call is opaque: as a condition it is decided *)
(* outside of the scenario, as an effect it leaves the flags and the       *)
(* variables of the scenario alone.                                        *)
(***************************************************************************)

\* The render triggers: of the board, of the next boards, of the hold board.
RenderNodes ==
    SeqToSet(tdata.render_triggers) \cup SeqToSet(tdata.render_next_triggers)
        \cup SeqToSet(tdata.render_hold_triggers)

\* The render triggers in declaration order.
RenderList ==
    tdata.render_triggers \o tdata.render_next_triggers \o tdata.render_hold_triggers

\* The input-capture triggers (one per hotkey building).
InputCapture == SeqToSet(tdata.selection_triggers)

\* The trees of both sequence buffers, and the triggers they own.
SequenceTrees == tdata.seq_init0 \o tdata.seq_init1
SequenceTreeIds == UNION {OwnedTriggers(SequenceTrees[i]) : i \in 1..Len(SequenceTrees)}

\* The effects the trigger of a split adds for the child on its side: a
\* leaf k != 0 calls the swap of the slots 0 and k, an internal child has
\* both its triggers activated.
wire_child(child, trigger) ==
    IF IsLeaf(child)
    THEN (IF child.data # 0
          THEN <<AddEffect(trigger, Item("CALL", "swap_seq_values", child.data))>>
          ELSE <<>>)
    ELSE <<AddEffect(trigger, Item("ACTIVATE_TRIGGER", child.data.success, 0)),
           AddEffect(trigger, Item("ACTIVATE_TRIGGER", child.data.failure, 0))>>

RECURSIVE wire_tree(_)
\* A split: the success trigger is guarded by the chance of the split; the
\* trigger of either outcome disarms the trigger of the other outcome.
wire_tree(t) ==
    IF IsLeaf(t) THEN <<>>
    ELSE <<AddCondition(t.data.success, Item("CHANCE", t.data.percent, 0)),
           AddEffect(t.data.success, Item("DEACTIVATE_TRIGGER", t.data.failure, 0))>>
         \o wire_child(t.left, t.data.success)
         \o <<AddEffect(t.data.failure, Item("DEACTIVATE_TRIGGER", t.data.success, 0))>>
         \o wire_child(t.right, t.data.failure)
         \o wire_tree(t.left) \o wire_tree(t.right)

RECURSIVE wire_trees(_)
wire_trees(ts) == IF ts = <<>> THEN <<>> ELSE wire_tree(Head(ts)) \o wire_trees(Tail(ts))

\* The objective displays wait for a defeat of GAIA: they never fire.
wire_objectives ==
    <<AddCondition(tdata.game_over_objective, Item("PLAYER_DEFEATED", 0, 0)),
      AddCondition(tdata.new_game_objective, Item("PLAYER_DEFEATED", 0, 0)),
      AddCondition(tdata.stat_obj, Item("PLAYER_DEFEATED", 0, 0))>>

\* begin-round: guarded by the external start predicate; every register is
\* reset to its declared initial value, the trees of both sequence buffers
\* are activated, then the game loop.
wire_begin_round ==
    <<AddCondition(tdata.can_begin, Item("SCRIPT_CALL", "can_start_new_game", 0))>>
    \o [i \in 1..Cardinality(DOMAIN tdata.variables.init) |->
            AddEffect(tdata.can_begin,
                      Item("CHANGE_VARIABLE", i - 1, tdata.variables.init[i - 1]))]
    \o [i \in 1..(2 * Len(SequenceTrees)) |->
            LET t == SequenceTrees[(i + 1) \div 2].data
            IN  AddEffect(tdata.can_begin,
                    Item("ACTIVATE_TRIGGER",
                         IF i % 2 = 1 THEN t.success ELSE t.failure, 0))]
    \o <<AddEffect(tdata.can_begin, Item("ACTIVATE_TRIGGER", tdata.game_loop, 0))>>

\* game-loop: clears the selection register, activates the input-capture
\* triggers, then activates update.
wire_game_loop ==
    <<AddEffect(tdata.game_loop, Item("CHANGE_VARIABLE", tdata.variables.selected, 0))>>
    \o [a \in 1..Len(tdata.selection_triggers) |->
            AddEffect(tdata.game_loop,
                      Item("ACTIVATE_TRIGGER", tdata.selection_triggers[a], 0))]
    \o <<AddEffect(tdata.game_loop, Item("ACTIVATE_TRIGGER", tdata.update, 0))>>

\* The input-capture trigger of action a: guarded by the selection of its
\* building; it reports the selection and disarms every other input-capture
\* trigger.
wire_input_capture(a) ==
    LET t      == tdata.selection_triggers[a]
        action == tdata.reg[t].name.a
        others == SelectSeq(tdata.selection_triggers, LAMBDA u : u # t)
    IN  <<AddCondition(t, Item("OBJECT_SELECTED", action, 0)),
          AddEffect(t, Item("CALL", "select_building", action))>>
        \o [i \in 1..Len(others) |->
                AddEffect(t, Item("DEACTIVATE_TRIGGER", others[i], 0))]

RECURSIVE wire_input_captures(_)
wire_input_captures(a) ==
    IF a > Len(tdata.selection_triggers) THEN <<>>
    ELSE wire_input_capture(a) \o wire_input_captures(a + 1)

\* update: calls the step function, activates the render triggers and the
\* game-over check, and re-arms cleanup.
wire_update ==
    <<AddEffect(tdata.update, Item("CALL", "update", 0))>>
    \o [i \in 1..Len(RenderList) |->
            AddEffect(tdata.update, Item("ACTIVATE_TRIGGER", RenderList[i], 0))]
    \o <<AddEffect(tdata.update, Item("ACTIVATE_TRIGGER", tdata.game_over, 0)),
         AddEffect(tdata.update, Item("ACTIVATE_TRIGGER", tdata.cleanup, 0))>>

\* The key of the i-th render trigger of the board, as its declaration
\* names it.
render_trigger_key(i) ==
    LET name == tdata.reg[tdata.render_triggers[i]].name
    IN  render_key(name.a[1], name.a[2], Directions[name.b[1] + 1], name.b[2])

\* The script call that guards the j-th render trigger: canRenderTile for a
\* trigger of the board, canRenderNext for one of a next board,
\* canRenderHold for one of the hold board.  The calls are generated by a
\* caller whose xs state is initialised.
render_call(j) ==
    LET xs   == init_xs_state(new_ScriptCaller).self
        name == tdata.reg[RenderList[j]].name
    IN  IF j <= Len(tdata.render_triggers)
        THEN LET k == render_trigger_key(j)
             IN  can_render_tile(xs, k.index, k.facing, k.tetromino).call
        ELSE IF j <= Len(tdata.render_triggers) + Len(tdata.render_next_triggers)
        THEN can_render_next(xs, name.a, Tetromino(name.b)).call
        ELSE can_render_hold(xs, IF name.a = 0 THEN None ELSE Tetromino(name.a)).call

\* A render trigger: guarded by one external predicate, it replaces the
\* object of its cell.
wire_render ==
    [i \in 1..(2 * Len(RenderList)) |->
        IF i % 2 = 1
        THEN LET call == render_call((i + 1) \div 2)
             IN  AddCondition(RenderList[(i + 1) \div 2],
                              Item("SCRIPT_CALL", call.name, call.params))
        ELSE AddEffect(RenderList[i \div 2], Item("REPLACE_OBJECT", 0, 0))]

\* Mutant: game-over does not re-arm begin-round.
wire_game_over_final ==
    <<AddCondition(tdata.game_over, Item("SCRIPT_CALL", "is_game_over", 0)),
      AddEffect(tdata.game_over, Item("DEACTIVATE_TRIGGER", tdata.game_loop, 0)),
      AddEffect(tdata.game_over, Item("ACTIVATE_TRIGGER", tdata.game_over_objective, 0))>>

\* game-over: guarded by the external game-over predicate; deactivates the
\* game loop, activates the end-of-round objective, re-arms begin-round.
wire_game_over ==
    <<AddCondition(tdata.game_over, Item("SCRIPT_CALL", "is_game_over", 0)),
      AddEffect(tdata.game_over, Item("DEACTIVATE_TRIGGER", tdata.game_loop, 0)),
      AddEffect(tdata.game_over, Item("ACTIVATE_TRIGGER", tdata.game_over_objective, 0)),
      AddEffect(tdata.game_over, Item("ACTIVATE_TRIGGER", tdata.can_begin, 0))>>

\* Mutant: cleanup also disarms the game-over check.
wire_cleanup_and_game_over ==
    [i \in 1..Len(RenderList) |->
        AddEffect(tdata.cleanup, Item("DEACTIVATE_TRIGGER", RenderList[i], 0))]
    \o [a \in 1..Len(tdata.selection_triggers) |->
            AddEffect(tdata.cleanup,
                      Item("DEACTIVATE_TRIGGER", tdata.selection_triggers[a], 0))]
    \o <<AddEffect(tdata.cleanup, Item("DEACTIVATE_TRIGGER", tdata.game_over, 0))>>

\* cleanup: deactivates every render trigger and every input-capture
\* trigger.
wire_cleanup ==
    [i \in 1..Len(RenderList) |->
        AddEffect(tdata.cleanup, Item("DEACTIVATE_TRIGGER", RenderList[i], 0))]
    \o [a \in 1..Len(tdata.selection_triggers) |->
            AddEffect(tdata.cleanup,
                      Item("DEACTIVATE_TRIGGER", tdata.selection_triggers[a], 0))]

\* Every condition and effect of the game scenario.
wire_scheduler ==
    wire_objectives \o wire_begin_round \o wire_trees(SequenceTrees)
    \o wire_game_loop \o wire_input_captures(1) \o wire_update \o wire_render
    \o wire_game_over \o wire_cleanup

\* The game scenario: the triggers are declared, then wired.
build_game ==
    /\ tdata = tetrisdata_TetrisData(Rows, Cols, Visible)
    /\ \E w \in {wire_scheduler} : scn = Scenario(w)

(***************************************************************************)
(* SpecSched: the engine runs the game scenario.                           *)
(***************************************************************************)

\* Number of render triggers whose predicate holds in one tick.
MaxRendered == 1

\* The triggers of the scheduler whose firing is recorded: begin-round, the
\* phase triggers, the render triggers, game-over.
SchedulerNodes ==
    {tdata.can_begin, tdata.game_loop, tdata.update, tdata.game_over, tdata.cleanup}
        \cup RenderNodes

\* The scenario as loaded: the declared flags, every variable 0.
InitSched ==
    /\ TreeIdle
    /\ build_game
    /\ enabled = [t \in TriggerIds |-> scn[t].enabled]
    /\ vals = [v \in DOMAIN tdata.variables.init |-> 0]
    /\ pc = 1
    /\ timer = [u \in TimedOf(scn) |-> 0]
    /\ observed = SchedulerNodes
    /\ evaluated = {}
    /\ fired = {}
    /\ ticks = 0

\* The sweep reaches a ready trigger whose external predicate holds (the
\* start of a round, a selection, a coin of a tree, a render predicate, the
\* end of the game): it fires.
PredicateHolds ==
    \E t \in CanFireNext :
        /\ External(t)
        /\ t \in RenderNodes => Cardinality(fired \cap RenderNodes) < MaxRendered
        /\ DoFire(t)
        /\ UNCHANGED treeVars

NextSched == FireTrigger \/ PredicateHolds \/ EndTick

SpecSched == InitSched /\ [][NextSched]_vars

(***************************************************************************)
(* SpecReset: begin-round fires in the first tick of the game scenario,    *)
(* whatever values the registers hold (the scripts of earlier rounds write *)
(* the registers).                                                         *)
(***************************************************************************)

\* Number of registers that do not hold their declared initial value.
MaxDirty == 2

\* How far the value of such a register is from the declared one.
MaxDrift == 1

\* The register contents that differ from the declared initial values in at
\* most MaxDirty registers, by at most MaxDrift.
DirtyRegisters ==
    UNION {{[r \in DOMAIN tdata.variables.init |->
                tdata.variables.init[r] + (IF r \in D THEN f[r] ELSE 0)] :
               f \in [D -> 1..MaxDrift]} :
           D \in {S \in SUBSET DOMAIN tdata.variables.init :
                      Cardinality(S) <= MaxDirty}}

\* The scenario as loaded, the registers as earlier rounds left them.
InitReset ==
    /\ TreeIdle
    /\ build_game
    /\ enabled = [t \in TriggerIds |-> scn[t].enabled]
    /\ vals \in DirtyRegisters
    /\ pc = 1
    /\ timer = [u \in TimedOf(scn) |-> 0]
    /\ observed = SchedulerNodes
    /\ evaluated = {}
    /\ fired = {}
    /\ ticks = 0

\* The sweep reaches a trigger before begin-round that has no condition: it
\* fires.
FireBefore ==
    \E t \in CanFireNext :
        /\ ~External(t)
        /\ t < tdata.can_begin
        /\ DoFire(t)
        /\ UNCHANGED treeVars

\* The sweep reaches begin-round and the start predicate holds: it fires.
BeginRound ==
    /\ tdata.can_begin \in CanFireNext
    /\ DoFire(tdata.can_begin)
    /\ UNCHANGED treeVars

NextReset == FireBefore \/ BeginRound

SpecReset == InitReset /\ [][NextReset]_vars

(***************************************************************************)
(* Properties of the tree (checked under SpecTree).                        *)
(***************************************************************************)

RECURSIVE WellFormed(_)
\* Every node is a leaf or has exactly the fields data, left and right, with
\* well-formed children.
WellFormed(t) ==
    \/ IsLeaf(t)
    \/ /\ DOMAIN t = {"data", "left", "right"}
       /\ WellFormed(t.left)
       /\ WellFormed(t.right)

IsPrefix(a, b) == Len(a) <= Len(b) /\ \A i \in 1..Len(a) : a[i] = b[i]

IsPow2(k) == \E e \in 0..5 : k = Pow(2, e)

Abs(x) == IF x < 0 THEN -x ELSE x

\* C2: for every bound n >= 1 the tree has exactly n+1 leaves and n splits,
\* every split has two children and owns two triggers no other split owns
\* (2n distinct triggers in all), and every leaf is reached by exactly one
\* root-to-leaf path.
C2_TreeShape ==
    Built =>
        /\ n >= 1
        /\ WellFormed(tree)
        /\ Len(Leaves(tree)) = n + 1
        /\ Len(Splits(tree)) = n
        /\ Cardinality(OwnedTriggers(tree)) = 2 * n
        /\ Cardinality(LeafPaths(tree)) = n + 1
        /\ \A v \in 0..n :
              Cardinality({p \in LeafPaths(tree) : Descend(tree, p).data = v}) = 1

C2_Witness == Built /\ n = 6 /\ IsLeaf(node)

\* C3: for every bound n >= 1 the leaves read left to right are 0, 1, ..., n
\* (each value exactly once, in increasing order).
C3_LeafValues ==
    Built => Leaves(tree) = [i \in 1..(n + 1) |-> i - 1]

C3_Witness == Built /\ n = 6 /\ IsLeaf(node) /\ node.data = 6

\* The fixed outcome sequence of the end-to-end scenario.
Stream9 == <<SUCCESS, FAILURE, SUCCESS, SUCCESS, FAILURE>>

\* C9 as claimed: the tree for n = 6 driven by Stream9 ends in leaf 4.
C9_Original ==
    (Built /\ n = 6 /\ IsLeaf(node) /\ IsPrefix(flips, Stream9)) => node.data = 4

\* C9 amended: the tree for n = 6 driven by Stream9 ends in leaf 1, reached
\* after the first three outcomes; the walk never consumes the last two.
C9_Amended ==
    (Built /\ n = 6 /\ IsPrefix(flips, Stream9)) =>
        /\ IsLeaf(node) => (node.data = 1 /\ flips = SubSeq(Stream9, 1, 3))
        /\ ~IsLeaf(node) => Len(flips) < 3
        /\ Descend(tree, Stream9) = BTreeLeaf(1)

C9_Witness == Built /\ n = 6 /\ IsLeaf(node) /\ flips = SubSeq(Stream9, 1, 3)

\* C10 as claimed: the product of the branch probabilities along the path to
\* every leaf is exactly 1/(n+1).
C10_Original ==
    (Built /\ IsLeaf(node)) => weight * (n + 1) = Pow(100, Len(flips))

\* C10 amended: every leaf has a positive probability; at every split the
\* success percentage is within half a percentage point of the exact share
\* 100*num_left/total of the success side; and the product along the path to
\* a leaf is exactly 1/(n+1) when n+1 is a power of two.
C10_Amended ==
    Built =>
        /\ weight = PathWeight(tree, flips)
        /\ IsLeaf(node) => weight > 0
        /\ ~IsLeaf(node) =>
              LET num_left == Len(Leaves(node.left))
                  total    == Len(Leaves(node))
              IN  2 * Abs(100 * num_left - node.data.percent * total) <= total
        /\ (IsLeaf(node) /\ IsPow2(n + 1)) =>
              weight * (n + 1) = Pow(100, Len(flips))

C10_Witness == Built /\ n = 6 /\ IsLeaf(node) /\ node.data = 0 /\ weight = 43 * 33

RECURSIVE Subtrees(_)
\* The internal nodes of t (each with its subtree).
Subtrees(t) ==
    IF IsLeaf(t) THEN {} ELSE {t} \cup Subtrees(t.left) \cup Subtrees(t.right)

\* The subrange [left, right) of an internal node: its leaves are the
\* integers left, ..., right - 1.
RangeLeft(t) == Leaves(t)[1]
RangeRight(t) == Leaves(t)[1] + Len(Leaves(t))

\* C11: at every internal split over [left, right) with total = right - left
\* the range is bisected at mid = left + floor(total / 2) (the success side
\* is [left, mid), the failure side [mid, right)), and the percentage stored
\* is 100 * num_left / total rounded to the nearest integer.
C11_Bisection ==
    Built =>
        \A t \in Subtrees(tree) :
            LET left      == RangeLeft(t)
                right     == RangeRight(t)
                total     == right - left
                mid       == left + (total \div 2)
                num_left  == mid - left
                num_right == right - mid
            IN  /\ Leaves(t) = [i \in 1..total |-> left + i - 1]
                /\ Leaves(t.left) = [i \in 1..num_left |-> left + i - 1]
                /\ Leaves(t.right) = [i \in 1..num_right |-> mid + i - 1]
                /\ 2 * Abs(100 * num_left - t.data.percent * total) <= total

\* The tree for n = 6: the root splits 7 integers 3 to 4 with 43 percent, its
\* success child splits 3 integers 1 to 2 with 33 percent.
C11_Witness ==
    /\ Built /\ n = 6
    /\ tree.data.percent = 43 /\ Leaves(tree.left) = <<0, 1, 2>>
    /\ tree.left.data.percent = 33 /\ Leaves(tree.left.left) = <<0>>

\* C12: for every bound n >= 1 the construction raises no error: no
\* ChanceNode is rejected (every percentage is in 0..100) and no call of
\* declare_range fails its assertion (every split is over 2 integers or
\* more).
C12_NoError ==
    n >= 1 =>
        /\ err = "none"
        /\ Built =>
            \A t \in Subtrees(tree) :
                /\ t.data.percent \in 0..100
                /\ Len(Leaves(t)) >= 2

\* The tree for n = 7 was built without error: 7 splits, 14 triggers added.
C12_Witness ==
    /\ Built /\ n = 7 /\ err = "none"
    /\ Cardinality(Subtrees(tree)) = 7
    /\ \E r \in Registries : Len(tmgr) = Len(r) + 14

\* C13: the call with n < 1 raises ValueError, returns no tree and leaves
\* the registry as it was.
C13_Rejected ==
    [][n < 1 => (err' = "ValueError" /\ tree' = NoTree /\ tmgr' = tmgr)]_vars

\* The bound 0 was rejected; the registry still holds its one trigger.
C13_Witness == n = 0 /\ err = "ValueError" /\ tree = NoTree /\ Len(tmgr) = 1

\* C14: the constructor call with a percentage below 0 or above 100 raises
\* ValueError and yields no node; with a percentage in 0..100 it yields a
\* node that reports the percentage and the two triggers it was given.
C14_ChanceNode ==
    (args # <<>> /\ pc = 1) =>
        IF args.percent < 0 \/ args.percent > 100
        THEN err = "ValueError" /\ node = NoNode
        ELSE /\ err = "none"
             /\ node.percent = args.percent
             /\ node.success = args.success
             /\ node.failure = args.failure

\* The call with percentage 100 and two different triggers succeeded.
C14_Witness ==
    /\ args # <<>> /\ pc = 1
    /\ args.percent = 100 /\ args.success # args.failure
    /\ err = "none" /\ node.percent = 100

(***************************************************************************)
(* Properties of the tree triggers (SpecTreeRun, SpecFY) and of the        *)
(* placement banks (SpecBank).                                             *)
(***************************************************************************)

\* The tree whose triggers are observed.
ObservedTree ==
    tdata.rand_int_trees[CHOOSE i \in 1..Len(tdata.rand_int_trees) :
                              TreeTriggers(i) = observed]

RECURSIVE LeavesReached(_, _)
\* The leaves of t that were reached when the triggers F fired: a leaf is
\* reached when the trigger of its parent that leads to it fires.
LeavesReached(t, F) ==
    IF IsLeaf(t) THEN {}
    ELSE (IF t.data.success \in F /\ IsLeaf(t.left) THEN {t.left.data} ELSE {})
         \cup (IF t.data.failure \in F /\ IsLeaf(t.right) THEN {t.right.data} ELSE {})
         \cup LeavesReached(t.left, F) \cup LeavesReached(t.right, F)

RECURSIVE ParentFirst(_, _)
\* A trigger of a split below the root is in F only if the trigger of the
\* parent that leads to the split is in F.
ParentFirst(t, F) ==
    \/ IsLeaf(t)
    \/ /\ \/ IsLeaf(t.left)
          \/ (t.left.data.success \in F \/ t.left.data.failure \in F)
                => t.data.success \in F
       /\ \/ IsLeaf(t.right)
          \/ (t.right.data.success \in F \/ t.right.data.failure \in F)
                => t.data.failure \in F
       /\ ParentFirst(t.left, F)
       /\ ParentFirst(t.right, F)

\* The tick in which the observed tree was activated has been swept.
ActivationDone == pc > 1 /\ ReadyAhead = {}

\* C1 (as stated): when the root triggers of a tree were activated together
\* and the tick has been swept, exactly one leaf was reached, at no split
\* both the success and the failure trigger fired, at the root exactly one
\* of them fired, and a split's triggers fired only after the parent trigger
\* leading to it.
C1_Original ==
    ActivationDone =>
        LET t == ObservedTree
        IN  /\ Cardinality(LeavesReached(t, fired)) = 1
            /\ \A i \in 1..Len(Splits(t)) :
                    ~(Splits(t)[i].success \in fired /\ Splits(t)[i].failure \in fired)
            /\ (t.data.success \in fired) # (t.data.failure \in fired)
            /\ ParentFirst(t, fired)

\* The variables of the current pieces (the 7 slots of the sequence).
CurrentSlots == {piece_vars[0][k] : k \in 0..(NUM_TETROMINO - 1)}

\* The value 'Initialize Tetromino Variables TEST' gives to variable v.
InitialValue(v) ==
    LET effs == scn[tdata.test_init_var_trigger].effects
    IN  effs[CHOOSE i \in 1..Len(effs) : effs[i].a = v].b

\* 'Initialize Tetromino Variables TEST' has fired.
SlotsInitialised == ~enabled[tdata.test_init_var_trigger]

\* C4: the tree triggers write the slots only by swaps of two different
\* slots, and once the slots are initialised they hold a permutation of
\* their initial values in every reachable state: every initial value is
\* held by exactly one slot.
C4_SlotsPermutation ==
    /\ \A t \in TreeTriggerIds : \A i \in 1..Len(scn[t].effects) :
            LET e == scn[t].effects[i]
            IN  /\ e.type # "CHANGE_VARIABLE"
                /\ e.type = "SCRIPT_CALL" =>
                        e.a \in CurrentSlots /\ e.b \in CurrentSlots /\ e.a # e.b
    /\ SlotsInitialised =>
            \A k \in CurrentSlots :
                Cardinality({j \in CurrentSlots : vals[j] = InitialValue(k)}) = 1

\* C4 witness: the trees have fired and left the slots in another order.
C4_Witness ==
    /\ SlotsInitialised
    /\ ticks > TIMER_SECONDS
    /\ \E k \in CurrentSlots : vals[k] # InitialValue(k)

\* C8: in every placement bank each member carries a deactivate effect for
\* every other member; once a member has fired every member of the bank is
\* disabled, and at most one member fires per loop iteration, in whatever
\* order the members are evaluated.
C8_MutualExclusion ==
    \A s \in 0..(NUM_TETROMINO - 1) :
        /\ \A a \in Bank(s) : \A b \in Bank(s) \ {a} :
                \E i \in 1..Len(scn[a].effects) :
                    scn[a].effects[i] = Item("DEACTIVATE_TRIGGER", b, 0)
        /\ fired \cap Bank(s) # {} => \A t \in Bank(s) : ~enabled[t]
        /\ Cardinality(fired \cap Bank(s)) <= 1

\* C8 witness: in a later loop iteration a member has fired while other
\* members, some of them earlier in the list, are still to be evaluated.
C8_Witness ==
    /\ ticks > 0
    /\ fired # {}
    /\ \E t \in fired : \E u \in observed \ evaluated : u < t


(***************************************************************************)
(* Properties of the phase scheduler (checked under SpecSched).            *)
(***************************************************************************)

\* Trigger t is the trigger that fired last in the sweep of this tick.
JustFired(t) == pc = t + 1

\* The phase triggers of a tick.
PhaseNodes == {tdata.game_loop, tdata.update, tdata.cleanup}

\* The state is the start of a tick.
TickStart == pc = 1

\* C5, as stated: in every state reached after the first tick exactly one
\* of the triggers game-loop, update, cleanup is enabled.
C5_Original ==
    ticks >= 1 => Cardinality({t \in PhaseNodes : enabled[t]}) = 1

\* C5, amended: in every state reached after the first tick update and
\* cleanup are not enabled together; at the start of a tick neither of them
\* is enabled, and the game loop is enabled exactly if begin-round is not
\* (a round is running).  Within a tick the looping game loop stays enabled
\* beside update or cleanup.
C5_Amended ==
    ticks >= 1 =>
        /\ ~(enabled[tdata.update] /\ enabled[tdata.cleanup])
        /\ TickStart =>
            /\ ~enabled[tdata.update]
            /\ ~enabled[tdata.cleanup]
            /\ enabled[tdata.game_loop] <=> ~enabled[tdata.can_begin]

\* Update has just fired in a running round: cleanup is armed beside the
\* looping game loop.
C5_Witness ==
    /\ ticks >= 1
    /\ JustFired(tdata.update)
    /\ enabled[tdata.game_loop] /\ enabled[tdata.cleanup] /\ ~enabled[tdata.update]

\* C6: right after cleanup fires no render trigger (board, next, hold) and
\* no input-capture trigger is enabled; no render trigger is enabled at
\* the start of a tick.
C6_CleanSlate ==
    /\ JustFired(tdata.cleanup) =>
            \A t \in RenderNodes \cup InputCapture : ~enabled[t]
    /\ TickStart => \A t \in RenderNodes : ~enabled[t]

\* Cleanup has just fired in a tick in which a render trigger fired (update
\* had armed the render triggers).
C6_Witness == JustFired(tdata.cleanup) /\ fired \cap RenderNodes # {} /\ ticks >= 1

\* C7: in the state right after game-over fires the game loop is disabled,
\* begin-round is enabled and the end-of-round objective is enabled.
C7_AfterGameOver ==
    JustFired(tdata.game_over) =>
        /\ ~enabled[tdata.game_loop]
        /\ enabled[tdata.can_begin]
        /\ enabled[tdata.game_over_objective]

\* Game-over has just fired in a round that ran for more than one tick.
C7_Witness == JustFired(tdata.game_over) /\ ticks >= 1


(***************************************************************************)
(* Properties of the permutation wiring (checked under SpecFY).            *)
(***************************************************************************)

\* The swap calls among the effects of trigger t.
Swaps(t) == SelectSeq(scn[t].effects, LAMBDA e : e.type = "SCRIPT_CALL")

\* The sides of the splits of tree T: the trigger of the side and the child
\* it leads to.
Sides(T) ==
    {[trigger |-> t.data.success, child |-> t.left] : t \in Subtrees(T)}
        \cup {[trigger |-> t.data.failure, child |-> t.right] : t \in Subtrees(T)}

\* The sides that lead to a leaf with a value other than 0.
SwapSides(T) == {s \in Sides(T) : IsLeaf(s.child) /\ s.child.data # 0}

\* C15: in every tree the trigger leading to leaf 0 carries no swap call,
\* the trigger leading to a leaf k # 0 carries exactly one, no other trigger
\* of the tree carries any, and no swap call names the same slot twice.
C15_NoSelfSwap ==
    /\ \A i \in 1..Len(tdata.rand_int_trees) :
          \A s \in Sides(tdata.rand_int_trees[i]) :
              Len(Swaps(s.trigger)) =
                  (IF s \in SwapSides(tdata.rand_int_trees[i]) THEN 1 ELSE 0)
    /\ \A t \in TriggerIds :
          \A j \in 1..Len(Swaps(t)) : Swaps(t)[j].a # Swaps(t)[j].b

\* The trigger leading to leaf 0 of the tree for n = 6 has just fired; it
\* carries no swap call.
C15_Witness ==
    \E s \in Sides(tdata.rand_int_trees[1]) :
        /\ IsLeaf(s.child) /\ s.child.data = 0
        /\ pc = s.trigger + 1
        /\ Swaps(s.trigger) = <<>>

\* C16, as stated: in the tree for suffix length m (the i-th tree, the one
\* for n = 7 - i, has m = 8 - i) the swap call of the leaf with offset j # 0
\* swaps slot 7 - m with slot 7 - m + j.
C16_Original ==
    \A i \in 1..Len(tdata.rand_int_trees) :
        \A s \in SwapSides(tdata.rand_int_trees[i]) :
            Swaps(s.trigger) =
                <<Item("SCRIPT_CALL", piece_vars[0][i - 1],
                       piece_vars[0][i - 1 + s.child.data])>>

\* The trees that have an enabled trigger.
ActiveTrees ==
    {i \in 1..Len(tdata.rand_int_trees) : \E t \in TreeTriggers(i) : enabled[t]}

\* C17, as stated: at most one tree has enabled triggers at a time (the
\* triggers of a shorter tree are not enabled before the tree before it has
\* reached a leaf).
C17_Original == Cardinality(ActiveTrees) <= 1


(***************************************************************************)
(* Properties of the phase order and of the rounds.                        *)
(***************************************************************************)

\* C18: in every tick of the game loop the phases occur in the order
\* capture input, update, render, cleanup.  The game loop arms every
\* input-capture trigger when it fires, and update fires only after the game
\* loop fired in this tick; a render trigger or cleanup fires only after
\* update fired in this tick; cleanup is armed exactly from the firing of
\* update to its own firing, so it fires once per firing of update.
C18_PhaseOrder ==
    /\ JustFired(tdata.game_loop) => \A t \in InputCapture : enabled[t]
    /\ tdata.update \in fired => tdata.game_loop \in fired
    /\ fired \cap RenderNodes # {} => tdata.update \in fired
    /\ tdata.cleanup \in fired => tdata.update \in fired
    /\ enabled[tdata.cleanup] <=> (tdata.update \in fired /\ tdata.cleanup \notin fired)
    /\ (tdata.game_loop \in fired /\ pc > tdata.update) => tdata.update \in fired

\* Cleanup has just fired in a tick after the first in which the game loop,
\* update and a render trigger fired.
C18_Witness ==
    /\ JustFired(tdata.cleanup) /\ ticks >= 1
    /\ {tdata.game_loop, tdata.update, tdata.cleanup} \subseteq fired
    /\ fired \cap RenderNodes # {}

\* The board-tile registers.
BoardRegisters ==
    UNION {SeqToSet(tdata.variables.board_tiles[r]) :
              r \in DOMAIN tdata.variables.board_tiles}

\* C19: whenever begin-round fires, every register holds its declared
\* initial value afterwards: score 0, selection 0, both sequence buffers
\* 1234567, sequence index 0, facing U (0), row 19, column 4, every
\* board-tile register 0.
C19_RegistersReset ==
    JustFired(tdata.can_begin) =>
        /\ vals[tdata.variables.score] = 0
        /\ vals[tdata.variables.selected] = 0
        /\ \A i \in 1..2 : vals[tdata.variables.sequences[i]] = INIT_SEQ
        /\ vals[tdata.variables.seq_index] = 0
        /\ vals[tdata.variables.facing] = 0
        /\ vals[tdata.variables.row] = INIT_ROW
        /\ vals[tdata.variables.col] = INIT_COL
        /\ \A r \in BoardRegisters : vals[r] = 0
        /\ DOMAIN vals = {tdata.variables.score, tdata.variables.selected,
                          tdata.variables.seq_index, tdata.variables.facing,
                          tdata.variables.row, tdata.variables.col}
                            \cup SeqToSet(tdata.variables.sequences)
                            \cup BoardRegisters

\* Begin-round has just fired (every register holds its initial value).
C19_Witness ==
    /\ JustFired(tdata.can_begin)
    /\ vals[tdata.variables.row] = INIT_ROW
    /\ vals[tdata.variables.sequences[2]] = INIT_SEQ


\* The root triggers of the trees of both sequence buffers.
SequenceRoots ==
    UNION {{SequenceTrees[i].data.success, SequenceTrees[i].data.failure} :
              i \in 1..Len(SequenceTrees)}

\* C20: rounds can repeat.  Game-over re-arms begin-round; an armed
\* begin-round that the sweep has not passed is ready, and from the second
\* tick on it is among the triggers that can fire next, so it fires when
\* the start predicate holds; when begin-round fires, at the first start or
\* after a finished round, the registers hold their initial values, the
\* roots of the trees of both sequence buffers are armed and the game loop
\* is enabled.  At the start of every tick begin-round or the game loop is
\* enabled, and an enabled game loop fires in the tick: the scheduler never
\* reaches a state in which no trigger can fire any more.
C20_RoundsRepeat ==
    /\ JustFired(tdata.game_over) => enabled[tdata.can_begin]
    /\ (enabled[tdata.can_begin] /\ pc <= tdata.can_begin) =>
          /\ tdata.can_begin \in ReadyAhead
          /\ ticks >= 1 => tdata.can_begin \in CanFireNext
    /\ JustFired(tdata.can_begin) =>
          /\ vals = tdata.variables.init
          /\ \A t \in SequenceRoots : enabled[t]
          /\ enabled[tdata.game_loop]
          /\ tdata.game_loop \in CertainAhead
    /\ TickStart =>
          /\ enabled[tdata.can_begin] \/ enabled[tdata.game_loop]
          /\ enabled[tdata.game_loop] => tdata.game_loop \in CertainAhead

\* Begin-round has just fired after a finished round (the end-of-round
\* objective of that round is displayed); the game loop is enabled again.
C20_Witness ==
    /\ JustFired(tdata.can_begin)
    /\ enabled[tdata.game_over_objective]
    /\ enabled[tdata.game_loop]


(***************************************************************************)
(* Properties of the firing rules (checked under SpecSched).               *)
(***************************************************************************)

\* The flags and the registers of the current state.
Current == [enabled |-> enabled, vals |-> vals]

\* C21: cleanup is idempotent.  Right after cleanup fired it is disabled, so
\* the engine does not fire it again and none of its effects executes; and
\* running its effects once more leaves every flag and every register as
\* they are.  While cleanup is armed, running its effects twice gives the
\* same flags and registers as running them once.
C21_CleanupIdempotent ==
    /\ JustFired(tdata.cleanup) =>
          /\ \A t \in RenderNodes \cup InputCapture : ~enabled[t]
          /\ ~enabled[tdata.cleanup]
          /\ tdata.cleanup \notin ReadyAhead
          /\ FireOn(tdata.cleanup, Current) = Current
    /\ enabled[tdata.cleanup] =>
          \E once \in {FireOn(tdata.cleanup, Current)} :
              /\ once # Current
              /\ FireOn(tdata.cleanup, once) = once

\* Cleanup has just fired in a later tick of a running round, after update
\* had armed the render triggers: a second invocation finds nothing armed.
C21_Witness ==
    /\ JustFired(tdata.cleanup) /\ ticks >= 2
    /\ tdata.update \in fired
    /\ enabled[tdata.game_loop]
    /\ FireOn(tdata.cleanup, Current) = Current

\* The triggers guarded by a predicate that is decided outside of the
\* scenario.
Guarded == {t \in TriggerIds : External(t)}

\* Trigger t carries a deactivate effect for trigger u.
Deactivates(t, u) ==
    \E i \in 1..Len(scn[t].effects) :
        /\ scn[t].effects[i].type = "DEACTIVATE_TRIGGER"
        /\ scn[t].effects[i].a = u

\* The step fires a trigger (the sweep moves on to the trigger after it), or
\* ends the tick.
StepFires == pc' > pc
StepEndsTick == pc' = 1 /\ ticks' = ticks + 1

\* The sweep passes the guarded trigger u in this step without firing it:
\* u is ready, so its predicate is false in this tick.
Passed(u) ==
    /\ Ready(u) /\ pc <= u
    /\ (StepFires /\ u < pc' - 1) \/ StepEndsTick

\* C22, as stated: a guarded trigger whose predicate is false in a tick
\* does not fire and is enabled afterwards.
C22_Original ==
    [][\A u \in Guarded : Passed(u) => enabled'[u]]_vars

\* C22, amended: a guarded trigger whose predicate is false in a tick does
\* not fire and executes none of its effects (the flags and registers change
\* by the effects of the trigger that fires, and not at all when the tick
\* ends), and it is enabled afterwards unless the trigger that fires
\* deactivates it.  The game-over check and begin-round, which no trigger
\* deactivates, stay enabled in every step in which they do not fire.  No
\* error is raised.
C22_Amended ==
    [][/\ \A u \in Guarded :
              Passed(u) =>
                  \/ enabled'[u]
                  \/ StepFires /\ Deactivates(pc' - 1, u)
       /\ StepFires => Current' = FireOn(pc' - 1, Current)
       /\ StepEndsTick => Current' = Current
       /\ \A u \in {tdata.game_over, tdata.can_begin} :
              (enabled[u] /\ pc' # u + 1) => enabled'[u]
       /\ err' = "none"]_vars

\* The game-over check is armed at the start of a later tick of a running
\* round: its predicate was false in the tick before.
C22_Witness ==
    /\ TickStart /\ ticks >= 2
    /\ enabled[tdata.game_over] /\ tdata.game_over \in Guarded
    /\ enabled[tdata.game_loop]

\* Trigger t carries an activate effect for trigger u.
Activates(t, u) ==
    \E i \in 1..Len(scn[t].effects) :
        /\ scn[t].effects[i].type = "ACTIVATE_TRIGGER"
        /\ scn[t].effects[i].a = u

\* C23: the re-arm modes.  Only an enabled trigger fires.  A trigger other
\* than the game loop is one-shot: it is disabled right after it fires; the
\* looping game loop is still enabled right after it fires.  A disabled
\* trigger becomes enabled only by an activate effect of another trigger
\* that fires, and the game loop is disabled only by a deactivate effect of
\* another trigger that fires.  A game loop that is enabled at the end of a
\* tick has fired in this tick and fires again in the next.
C23_RearmModes ==
    [][/\ StepFires =>
              /\ enabled[pc' - 1]
              /\ enabled'[pc' - 1] = (pc' - 1 = tdata.game_loop)
              /\ scn[pc' - 1].looping = (pc' - 1 = tdata.game_loop)
       /\ \A t \in TriggerIds :
              (~enabled[t] /\ enabled'[t]) =>
                  StepFires /\ pc' - 1 # t /\ Activates(pc' - 1, t)
       /\ (enabled[tdata.game_loop] /\ ~enabled'[tdata.game_loop]) =>
              /\ StepFires /\ pc' - 1 # tdata.game_loop
              /\ Deactivates(pc' - 1, tdata.game_loop)
       /\ (StepEndsTick /\ enabled[tdata.game_loop]) =>
              /\ tdata.game_loop \in fired
              /\ tdata.game_loop \in CertainAhead']_vars

\* The game loop has just fired in a tick after a tick in which update ran
\* (the game-over check is armed), and is still enabled.
C23_Witness ==
    /\ JustFired(tdata.game_loop) /\ ticks >= 1
    /\ enabled[tdata.game_over]
    /\ enabled[tdata.game_loop] /\ scn[tdata.game_loop].looping


(***************************************************************************)
(* Properties of the writers and of the evaluation order of the tree       *)
(* triggers (SpecTreeRun, SpecTreeOrder).                                  *)
(***************************************************************************)

\* Effect e writes register r: it assigns to r, or it is a swap call that
\* names r.
Writes(e, r) ==
    \/ e.type = "CHANGE_VARIABLE" /\ e.a = r
    \/ e.type = "SCRIPT_CALL" /\ (e.a = r \/ e.b = r)

\* The writer effects of register r that executed in this tick: the
\* observed trigger that fired and the position of the effect in its list.
WritersThisTick(r) ==
    UNION {{<<t, i>> : i \in {j \in 1..Len(scn[t].effects) :
                                 Writes(scn[t].effects[j], r)}} :
              t \in fired}

\* C24, as stated: in every tick every register has at most one writer
\* effect.
C24_Original ==
    \A r \in VariableIds : Cardinality(WritersThisTick(r)) <= 1

RECURSIVE SweepInOrder(_, _)
\* The triggers ts evaluated one after the other from the flags, registers
\* and fired set st: a trigger that is enabled when its turn comes and whose
\* coin passes fires.
SweepInOrder(ts, st) ==
    IF ts = <<>> THEN st
    ELSE LET t  == Head(ts)
             nx == FireOn(t, st)
         IN  SweepInOrder(Tail(ts),
                 IF st.enabled[t] /\ CoinPasses(t)
                 THEN [enabled |-> nx.enabled, vals |-> nx.vals,
                       fired |-> st.fired \cup {t}]
                 ELSE st)

\* The triggers of the observed tree in list order.
ObservedList ==
    SelectSeq([t \in 1..Len(tdata.reg) |-> t], LAMBDA t : t \in observed)

\* The activation of the observed tree is over: none of its triggers is
\* enabled.
OrderDone == \A t \in observed : ~enabled[t]

\* C25, as stated: for fixed coins the triggers that fire and the leaves
\* that are reached in an activation are the same in whatever order the
\* engine evaluates the triggers: they are those of the evaluation in list
\* order (a split's success trigger before its failure trigger).
C25_Original ==
    OrderDone =>
        LET ref == SweepInOrder(ObservedList,
                       [enabled |-> args.enabled, vals |-> args.vals, fired |-> {}])
        IN  /\ fired = ref.fired
            /\ LeavesReached(ObservedTree, fired)
                    = LeavesReached(ObservedTree, ref.fired)
            /\ vals = ref.vals

(***************************************************************************)
(* The render triggers of the board (SpecRender).  The xs script holds the *)
(* ground truth: the occupant of every (cell, facing) pair, 0 for an       *)
(* unoccupied one.  The specification watches the pairs of one cell; the   *)
(* script rewrites their occupants one at a time.                          *)
(***************************************************************************)

\* The cells that have render triggers: rows rows // 2 .. rows - 1, every
\* column.
RenderCells ==
    {<<r, c>> : r \in (Rows \div 2)..(Rows - 1), c \in 0..(Cols - 1)}

\* The occupants of a tile: a piece or None.
Occupants == Tetrominos \cup {None}

\* The (key, trigger) pairs of the dictionary comprehension of
\* _declare_render_triggers, in the order they are produced.
RenderEntries ==
    [i \in 1..Len(tdata.render_triggers) |->
        [key |-> render_trigger_key(i), trigger |-> tdata.render_triggers[i]]]

\* The dictionary _declare_render_triggers returns: a key produced twice
\* keeps the trigger produced last.
RenderTable ==
    LET es   == RenderEntries
        last(k) == CHOOSE i \in DOMAIN es :
                      /\ es[i].key = k
                      /\ \A j \in DOMAIN es : es[j].key = k => j <= i
    IN  [k \in {es[i].key : i \in DOMAIN es} |-> es[last(k)].trigger]

\* The keys of one node per (cell, facing, occupant-or-empty) triple.
TripleKeys ==
    {[index |-> cell, facing |-> Directions[d], tetromino |-> o] :
        cell \in RenderCells, d \in DOMAIN Directions, o \in Occupants}

\* canRenderTile(r, c, d, t) of the xs script: the pair ((r, c), d) of the
\* watched cell holds occupant t.
canRenderTile(params) ==
    /\ <<params[1], params[2]>> = args.cell
    /\ args.truth[params[3]] = params[4]

\* The predicate of render trigger t of the board holds.
TilePredicateHolds(t) ==
    \A i \in 1..Len(scn[t].conditions) :
        LET c == scn[t].conditions[i]
        IN  c.type = "SCRIPT_CALL" => c.a = "canRenderTile" /\ canRenderTile(c.b)

\* The render triggers of the watched cell with facing value d whose
\* predicate holds.
TrueNodes(d) ==
    {t \in observed : scn[t].conditions[1].b[3] = d /\ TilePredicateHolds(t)}

\* The game scenario with an empty board; one cell is watched.
InitRender ==
    /\ n = 0 /\ tmgr = <<>> /\ tree = NoTree /\ err = "none"
    /\ node = NoTree /\ flips = <<>> /\ weight = 1
    /\ caller = <<>> /\ ret = <<>>
    /\ build_game
    /\ \E cell \in RenderCells :
          /\ args = [cell  |-> cell,
                     truth |-> [d \in {DirectionValue[f] : f \in DOMAIN DirectionValue} |-> 0]]
          /\ observed = {t \in SeqToSet(tdata.render_triggers) :
                            tdata.reg[t].name.a = cell}
    /\ enabled = [t \in TriggerIds |-> scn[t].enabled]
    /\ vals = [v \in DOMAIN tdata.variables.init |-> 0]
    /\ pc = 1
    /\ timer = [u \in TimedOf(scn) |-> 0]
    /\ evaluated = {}
    /\ fired = {}
    /\ ticks = 0

\* The script gives a pair of the watched cell another occupant.
ScriptWrites ==
    /\ \E d \in DOMAIN args.truth : \E v \in 0..NUM_TETROMINO :
          /\ v # args.truth[d]
          /\ args' = [args EXCEPT !.truth[d] = v]
    /\ UNCHANGED <<n, tmgr, tree, err, node, flips, weight, caller, ret,
                   tdata, scn, engineVars>>

NextRender == ScriptWrites

SpecRender == InitRender /\ [][NextRender]_vars

\* The board is empty.
BoardEmpty == \A d \in DOMAIN args.truth : args.truth[d] = 0

MaxCalls == 2

\* The outcome of the constructor.
Constructed == [err |-> "none", self |-> new_ScriptCaller, call |-> NoCall]

InitCaller ==
    /\ n = 0 /\ tmgr = <<>> /\ tree = NoTree /\ err = "none"
    /\ node = NoTree /\ flips = <<>> /\ weight = 1
    /\ args = [method |-> "__init__", params |-> <<>>]
    /\ caller = new_ScriptCaller
    /\ ret = Constructed
    /\ tdata = <<>> /\ scn = <<>>
    /\ enabled = <<>> /\ vals = <<>> /\ pc = 0
    /\ timer = <<>> /\ observed = {} /\ evaluated = {} /\ fired = {} /\ ticks = 0

\* Method `method` is called with `params` and has outcome r.
Invoke(method, params, r) ==
    /\ caller.suffix < MaxCalls
    /\ args' = [method |-> method, params |-> params]
    /\ ret' = r
    /\ caller' = r.self
    /\ err' = r.err
    /\ flips' = IF r.err = "none" THEN Append(flips, r.call.suffix) ELSE flips
    /\ UNCHANGED <<n, tmgr, tree, node, weight, tdata, scn, engineVars>>

\* The integers passed as sequence indices: around both ends of 0..6.
SeqIndices == {0 - 1, 0, 6, 7}

CallInitXsState == Invoke("init_xs_state", <<>>, init_xs_state(caller))

CallNoParameters ==
    \E method \in DOMAIN NoParameterMethods :
        Invoke(method, <<>>, call_no_parameters(caller, method))

CallSwapSeqValues ==
    \E seq_num \in (0 - 1)..2 : \E i, j \in SeqIndices :
        Invoke("swap_seq_values", <<seq_num, i, j>>,
               swap_seq_values(caller, seq_num, i, j))

CallCanRenderTile ==
    \E index \in RenderCells : \E d \in DOMAIN Directions : \E o \in Occupants :
        Invoke("can_render_tile", <<index, Directions[d], o>>,
               can_render_tile(caller, index, Directions[d], o))

CallSelectBuilding ==
    \E action \in DOMAIN ActionValue \cup {None} :
        Invoke("select_building", <<action>>, select_building(caller, action))

CallCanRenderNext ==
    \E index \in (0 - 1)..NUM_NEXT : \E t \in Tetrominos :
        Invoke("can_render_next", <<index, t>>, can_render_next(caller, index, t))

CallCanRenderHold ==
    \E o \in Occupants :
        Invoke("can_render_hold", <<o>>, can_render_hold(caller, o))

CallCanExplode ==
    \E row \in Visible..(Rows - 1) :
        Invoke("can_explode", <<row>>, can_explode(caller, row))

CallCanClearExplode ==
    \E row \in Visible..(Rows - 1) :
        Invoke("can_clear_explode", <<row>>, can_clear_explode(caller, row))

\* Tetromino.from_int is applied: a static method, the caller is not
\* involved.
CallFromInt ==
    \E t \in (0 - MaxOutside)..(NUM_TETROMINO + MaxOutside) :
        /\ args' = [method |-> "from_int", params |-> <<t>>]
        /\ ret' = from_int(t)
        /\ err' = from_int(t).err
        /\ UNCHANGED <<n, tmgr, tree, node, flips, weight, caller, tdata, scn,
                       engineVars>>

NextCaller ==
    \/ CallInitXsState
    \/ CallNoParameters
    \/ CallSwapSeqValues
    \/ CallCanRenderTile
    \/ CallSelectBuilding
    \/ CallCanRenderNext
    \/ CallCanRenderHold
    \/ CallCanExplode
    \/ CallCanClearExplode
    \/ CallFromInt

SpecCaller == InitCaller /\ [][NextCaller]_vars

\* The code of an occupant in a parameter list: 0 for None, the value of a
\* piece otherwise, which lies in 1..7.
EncodesOccupant(code, o) ==
    /\ (code = 0) <=> (o = None)
    /\ o # None => code = TetrominoValue[o] /\ code \in 1..NUM_TETROMINO

\* C27: the occupant encoding is injective with 0 reserved: the pieces have
\* pairwise distinct values in 1..7, none has value 0; None is the occupant
\* of the render keys built from 0 and is passed as 0 to canRenderTile and
\* canRenderHold, a piece is passed as its value; from_int(t.value) = t for
\* every piece t; from_int raises ValueError for 0 and for every other
\* integer outside of 1..7.
C27_OccupantEncoding ==
    /\ \A t \in Tetrominos : TetrominoValue[t] \in 1..NUM_TETROMINO
    /\ \A s, t \in Tetrominos : TetrominoValue[s] = TetrominoValue[t] => s = t
    /\ \A t \in Tetrominos :
          from_int(TetrominoValue[t]) = [err |-> "none", value |-> t]
    /\ \A index \in RenderCells : \A d \in DOMAIN Directions :
          /\ render_key(index[1], index[2], Directions[d], 0).tetromino = None
          /\ \A v \in 1..NUM_TETROMINO :
                LET o == render_key(index[1], index[2], Directions[d], v).tetromino
                IN  o \in Tetrominos /\ TetrominoValue[o] = v
    /\ args.method = "can_render_tile" /\ err = "none" =>
          /\ Len(ret.call.params) = 4
          /\ EncodesOccupant(ret.call.params[4], args.params[3])
    /\ args.method = "can_render_hold" /\ err = "none" =>
          /\ Len(ret.call.params) = 1
          /\ EncodesOccupant(ret.call.params[1], args.params[1])
    /\ args.method = "from_int" =>
          LET t == args.params[1]
          IN  /\ t \in 1..NUM_TETROMINO =>
                    err = "none" /\ TetrominoValue[ret.value] = t
              /\ t \notin 1..NUM_TETROMINO =>
                    err = "ValueError" /\ ret.value = None

\* canRenderTile was generated for an unoccupied tile: its last parameter
\* is 0.
C27_Witness ==
    /\ args.method = "can_render_tile"
    /\ args.params[3] = None
    /\ err = "none"
    /\ ret.call.name = "canRenderTile"
    /\ ret.call.params[4] = 0

(***************************************************************************)
(* The order of the calls of a ScriptCaller (checked under SpecCaller).    *)
(***************************************************************************)

\* The arguments of a call are valid: as the docstrings of the methods
\* require.
ValidArguments(a) ==
    CASE a.method = "swap_seq_values" ->
            /\ a.params[1] \in SEQ_NUMS
            /\ a.params[2] \in 0..6
            /\ a.params[3] \in 0..6
      [] a.method = "can_render_next" -> a.params[1] \in {0, 1, 2}
      [] OTHER -> TRUE

\* A step calls a method of the caller other than init_xs_state.
CallsOther == args'.method \notin {"init_xs_state", "from_int"}

\* The step raises error e: nothing is returned, the counter is unchanged.
StepRaises(e) ==
    /\ ret'.err = e
    /\ ret'.call = NoCall
    /\ caller' = caller

\* The step returns the call string of the next suffix.
StepSucceeds ==
    /\ ret'.err = "none"
    /\ caller'.suffix = caller.suffix + 1
    /\ DOMAIN ret'.call = {"suffix", "name", "params"}
    /\ ret'.call.suffix = caller'.suffix

RangeSize(t) == Len(Leaves(t))

\* The depths of the leaves of t.
LeafDepths(t) == {Len(p) : p \in LeafPaths(t)}

\* The height of t: the depth of its deepest leaf.
Height(t) == CHOOSE h \in LeafDepths(t) : \A d \in LeafDepths(t) : d <= h

\* ceil(log2(k)) for k >= 1.
CeilLog2(k) == CHOOSE h \in 0..k : Pow(2, h) >= k /\ (h = 0 \/ Pow(2, h - 1) < k)

\* C29: the tree of every bound n >= 1 is balanced: at every split the
\* right subrange has as many integers as the left one or one more, the
\* depths of any two leaves differ by at most 1, and the height of the tree
\* is ceil(log2(n + 1)).
C29_Balanced ==
    (tree # NoTree /\ n >= 1) =>
        /\ \A s \in Subtrees(tree) :
              /\ RangeSize(s.left) <= RangeSize(s.right)
              /\ RangeSize(s.right) - RangeSize(s.left) <= 1
        /\ \A d, e \in LeafDepths(tree) : d - e <= 1
        /\ Height(tree) = CeilLog2(n + 1)

\* A tree is built whose root splits an odd number of integers and whose
\* leaves lie at two depths.
C29_Witness ==
    /\ tree # NoTree
    /\ n >= 4
    /\ RangeSize(tree.left) < RangeSize(tree.right)
    /\ Cardinality(LeafDepths(tree)) = 2

(***************************************************************************)
(* SpecWire: the two phases of build in aoe2tetris.py.  TetrisData has     *)
(* declared every trigger; impl_triggers then makes its add_condition and  *)
(* add_effect calls one after the other on the trigger manager.  `tmgr` is *)
(* the trigger list of the manager, `args` the calls of impl_triggers in   *)
(* program order, `pc` the index of the next call.                         *)
(***************************************************************************)

\* TriggerObject.add_condition on trigger t of the trigger list.
add_condition(reg, t, item) == [reg EXCEPT ![t].conditions = Append(@, item)]

\* TriggerObject.add_effect on trigger t of the trigger list.
add_effect(reg, t, item) == [reg EXCEPT ![t].effects = Append(@, item)]

\* The trigger list after TetrisData.__init__: every declared trigger, with
\* no condition and no effect.
DeclaredList ==
    [t \in 1..Len(tdata.reg) |->
        [name       |-> tdata.reg[t].name,
         enabled    |-> tdata.reg[t].enabled,
         looping    |-> tdata.reg[t].looping,
         conditions |-> <<>>,
         effects    |-> <<>>]]

InitWire ==
    /\ n = 0 /\ tree = NoTree /\ err = "none"
    /\ node = NoTree /\ flips = <<>> /\ weight = 1
    /\ caller = <<>> /\ ret = <<>>
    /\ build
    /\ tmgr = DeclaredList
    /\ args = impl_triggers
    /\ pc = 1
    /\ enabled = <<>> /\ vals = <<>>
    /\ timer = <<>> /\ observed = {} /\ evaluated = {} /\ fired = {} /\ ticks = 0

\* The next call of impl_triggers is an add_condition.
WireCondition ==
    /\ pc <= Len(args)
    /\ args[pc].kind = "condition"
    /\ tmgr' = add_condition(tmgr, args[pc].trigger, args[pc].item)
    /\ pc' = pc + 1
    /\ UNCHANGED <<n, tree, err, node, flips, weight, args, caller, ret, tdata, scn,
                   enabled, vals, timer, observed, evaluated, fired, ticks>>

\* The next call of impl_triggers is an add_effect.
WireEffect ==
    /\ pc <= Len(args)
    /\ args[pc].kind = "effect"
    /\ tmgr' = add_effect(tmgr, args[pc].trigger, args[pc].item)
    /\ pc' = pc + 1
    /\ UNCHANGED <<n, tree, err, node, flips, weight, args, caller, ret, tdata, scn,
                   enabled, vals, timer, observed, evaluated, fired, ticks>>

NextWire == WireCondition \/ WireEffect

SpecWire == InitWire /\ [][NextWire]_vars

\* The effects of the trigger list that activate or deactivate a trigger
\* target a trigger of `ids`.
TargetsWithin(reg, ids) ==
    \A t \in 1..Len(reg) : \A i \in 1..Len(reg[t].effects) :
        reg[t].effects[i].type \in {"ACTIVATE_TRIGGER", "DEACTIVATE_TRIGGER"}
            => reg[t].effects[i].a \in ids

\* impl_triggers has returned.
Wired == pc = Len(args) + 1

\* C28: during the wiring the trigger list holds the triggers TetrisData
\* declared, in the same order, with their names and flags: none is added
\* and none is deleted; every call of impl_triggers is made on a declared
\* trigger and only appends one condition or one effect to it; every
\* activate or deactivate effect added targets a declared trigger; and the
\* wired list is the scenario that is written.
C28_DeclareThenWire ==
    /\ [](/\ Len(tmgr) = Len(tdata.reg)
          /\ \A t \in 1..Len(tmgr) :
                /\ tmgr[t].name = tdata.reg[t].name
                /\ tmgr[t].enabled = tdata.reg[t].enabled
                /\ tmgr[t].looping = tdata.reg[t].looping
          /\ \A i \in 1..(pc - 1) : args[i].trigger \in 1..Len(tdata.reg)
          /\ TargetsWithin(tmgr, 1..Len(tdata.reg))
          /\ Wired => \A t \in 1..Len(tmgr) :
                          /\ tmgr[t].conditions = scn[t].conditions
                          /\ tmgr[t].effects = scn[t].effects)
    /\ [][/\ \A t \in 1..Len(tmgr) :
                /\ IsPrefix(tmgr[t].conditions, tmgr'[t].conditions)
                /\ IsPrefix(tmgr[t].effects, tmgr'[t].effects)
          /\ \E t \in 1..Len(tmgr) :
                /\ Len(tmgr'[t].conditions) + Len(tmgr'[t].effects)
                      = Len(tmgr[t].conditions) + Len(tmgr[t].effects) + 1
                /\ \A u \in 1..Len(tmgr) : u # t => tmgr'[u] = tmgr[u]]_vars

\* impl_triggers has returned: the activator carries the two activate
\* effects of each tree, all on triggers declared before.
C28_Witness ==
    /\ Wired
    /\ Len(tmgr[tdata.activate_random].effects) = 2 * Len(tdata.rand_int_trees)
    /\ \A i \in 1..Len(tmgr[tdata.activate_random].effects) :
          /\ tmgr[tdata.activate_random].effects[i].type = "ACTIVATE_TRIGGER"
          /\ tmgr[tdata.activate_random].effects[i].a \in 1..Len(tdata.reg)

(***************************************************************************)
(* SpecShuffle: util.fisher_yates(lst).  `args` is the list passed, `vals` *)
(* the list as it is now, `n` the local n = len(lst) - 1, `pc` the loop    *)
(* index i of the next iteration, `flips` the values random.randint has    *)
(* returned so far.                                                        *)
(***************************************************************************)

\* The longest list that is shuffled.
MaxLen == 4

\* The lists that are shuffled: of every length up to MaxLen, with equal
\* and with different elements.
ShuffleInputs ==
    UNION {[1..len -> {"a", "b"}] : len \in 0..MaxLen}

\* Mutant: j is drawn from the whole list.
randint_from_zero(a, b) == 0..b

\* random.randint(a, b): an integer j with a <= j <= b.
randint(a, b) == a..b

\* lst[i], lst[j] = lst[j], lst[i] (positions counted from 0).
exchange(lst, i, j) ==
    [lst EXCEPT ![i + 1] = lst[j + 1], ![j + 1] = lst[i + 1]]

InitShuffle ==
    /\ args \in ShuffleInputs
    /\ vals = args
    /\ n = Len(args) - 1
    /\ pc = 0
    /\ flips = <<>>
    /\ tmgr = <<>> /\ tree = NoTree /\ err = "none" /\ node = NoTree /\ weight = 1
    /\ caller = <<>> /\ ret = <<>>
    /\ tdata = <<>> /\ scn = <<>>
    /\ enabled = <<>> /\ timer = <<>>
    /\ observed = {} /\ evaluated = {} /\ fired = {} /\ ticks = 0

\* One iteration of `for i in range(n)`.
SwapStep ==
    /\ pc < n
    /\ \E j \in randint(pc, n) :
          /\ vals' = exchange(vals, pc, j)
          /\ flips' = Append(flips, j)
    /\ pc' = pc + 1
    /\ UNCHANGED <<n, tmgr, tree, err, node, weight, args, caller, ret, tdata, scn,
                   enabled, timer, observed, evaluated, fired, ticks>>

NextShuffle == SwapStep

SpecShuffle == InitShuffle /\ [][NextShuffle]_vars

\* The number of times x occurs in list lst.
Occurrences(lst, x) == Cardinality({k \in 1..Len(lst) : lst[k] = x})

\* The loop of fisher_yates is over.
ShuffleDone == ~(pc < n)

\* C31: fisher_yates permutes the list in place: at every moment the list
\* has the length and the elements (each as often) of the list passed; the
\* loop ends after len - 1 swap steps, after none for the empty and the
\* one-element list, which are unchanged, and no error is raised; step i
\* exchanges position i with a position j, i <= j <= len - 1, and changes
\* no other position, so the positions below i stay as they are.
C31_FisherYates ==
    /\ [](/\ Len(vals) = Len(args)
          /\ \A x \in {"a", "b"} : Occurrences(vals, x) = Occurrences(args, x)
          /\ err = "none"
          /\ Len(flips) = pc
          /\ ShuffleDone =>
                /\ pc = IF Len(args) = 0 THEN 0 ELSE Len(args) - 1
                /\ Len(args) <= 1 => vals = args)
    /\ [][\E j \in pc..(Len(vals) - 1) :
              /\ flips' = Append(flips, j)
              /\ vals'[pc + 1] = vals[j + 1]
              /\ vals'[j + 1] = vals[pc + 1]
              /\ \A k \in 1..Len(vals) :
                    k \notin {pc + 1, j + 1} => vals'[k] = vals[k]]_vars

\* A list of MaxLen elements has been shuffled: its last step exchanged two
\* different elements and the list is another one than the list passed.
C31_Witness ==
    /\ Len(args) = MaxLen
    /\ ShuffleDone
    /\ pc = MaxLen - 1
    /\ flips[pc] = MaxLen - 1
    /\ vals # args

(***************************************************************************)
(* SpecInput: the engine runs the game scenario while the player selects   *)
(* hotkey buildings.  `args` is the set of actions whose buildings are     *)
(* selected in the current tick; the Object Selected condition of an       *)
(* input-capture trigger holds exactly for these.  The start of a round    *)
(* and the end of the game are decided by the step; the coins of the trees *)
(* and the render predicates, which neither read nor write the selection   *)
(* register, are false.  The other specifications of the game scenario     *)
(* take the script call of an input-capture trigger as opaque; here it is  *)
(* the write of the selection register.                                    *)
(***************************************************************************)

\* Number of buildings selected in one tick.
MaxSelected == 2

\* Number of ticks after which the engine is stopped in SpecInput.
MaxInputTicks == 2

\* The action of input-capture trigger t: HOTKEY_BUILDINGS of its building.
ActionOf(t) == tdata.reg[t].name.a

\* The sets of actions whose buildings can be selected in a tick.
Selections ==
    {S \in SUBSET {ActionOf(t) : t \in InputCapture} : Cardinality(S) <= MaxSelected}

\* The external condition of trigger t holds in this tick.
ExternalHolds(t) ==
    IF t \in InputCapture THEN ActionOf(t) \in args
    ELSE t \in {tdata.can_begin, tdata.game_over}

\* The ready input-capture triggers ahead whose building is selected: the
\* sweep does not pass them without firing them.
MustFire == {u \in ReadyAhead : u \in InputCapture /\ ActionOf(u) \in args}

\* The wiring w with the script call select_building(action) of the
\* input-capture triggers written as what it does to the scenario: it sets
\* the selection register to the value of the action.
SelectionWritten(w) ==
    [i \in 1..Len(w) |->
        IF w[i].item.type = "CALL" /\ w[i].item.a = "select_building"
        THEN [w[i] EXCEPT !.item = Item("CHANGE_VARIABLE",
                                        tdata.variables.selected, w[i].item.b)]
        ELSE w[i]]

\* The game scenario, the selection calls written as register writes.
build_input ==
    /\ tdata = tetrisdata_TetrisData(Rows, Cols, Visible)
    /\ \E w \in {SelectionWritten(wire_scheduler)} : scn = Scenario(w)

InitInput ==
    /\ n = 0 /\ tmgr = <<>> /\ tree = NoTree /\ err = "none"
    /\ node = NoTree /\ flips = <<>> /\ weight = 1
    /\ caller = <<>> /\ ret = <<>>
    /\ build_input
    /\ args \in Selections
    /\ enabled = [t \in TriggerIds |-> scn[t].enabled]
    /\ vals = [v \in DOMAIN tdata.variables.init |-> 0]
    /\ pc = 1
    /\ timer = [u \in TimedOf(scn) |-> 0]
    /\ observed = {tdata.game_loop, tdata.update} \cup InputCapture
    /\ evaluated = {}
    /\ fired = {}
    /\ ticks = 0

\* The sweep reaches a ready trigger without external condition: it fires.
InputFires ==
    \E t \in CanFireNext :
        /\ ~External(t)
        /\ \A u \in MustFire : t <= u
        /\ DoFire(t)
        /\ UNCHANGED treeVars

\* The sweep reaches a ready trigger whose external condition holds: it
\* fires.
InputPredicateHolds ==
    \E t \in CanFireNext :
        /\ External(t)
        /\ ExternalHolds(t)
        /\ \A u \in MustFire : t <= u
        /\ DoFire(t)
        /\ UNCHANGED treeVars

\* No trigger fires in the rest of the sweep: the next tick begins, with
\* the buildings the player selects in it.
InputEndTick ==
    /\ CertainAhead = {}
    /\ MustFire = {}
    /\ ticks < MaxInputTicks
    /\ args' \in Selections
    /\ pc' = 1
    /\ timer' = [u \in TimedTriggers |->
                    IF enabled[u] /\ timer[u] < TIMER_SECONDS THEN timer[u] + 1 ELSE timer[u]]
    /\ fired' = {}
    /\ ticks' = ticks + 1
    /\ UNCHANGED <<n, tmgr, tree, err, node, flips, weight, caller, ret, tdata, scn,
                   enabled, vals, observed, evaluated>>

NextInput == InputFires \/ InputPredicateHolds \/ InputEndTick

SpecInput == InitInput /\ [][NextInput]_vars

\* The smallest action of a set that is not empty.
LowestAction(S) == CHOOSE a \in S : \A b \in S : a <= b

\* The step fires update.
UpdateFires == pc' = tdata.update + 1 /\ pc <= tdata.update

\* C32: at the moment update fires, the selection register holds 0 if no
\* hotkey building is selected in this iteration of the game loop, whatever
\* was selected in earlier iterations, and otherwise the value of exactly
\* one action; when one or several buildings are selected, exactly one
\* input-capture trigger has fired, the one of the selected action with
\* the lowest value.
C32_InputCapture ==
    [][UpdateFires =>
          /\ tdata.game_loop \in fired
          /\ args = {} =>
                /\ vals[tdata.variables.selected] = 0
                /\ fired \cap InputCapture = {}
          /\ args # {} =>
                /\ vals[tdata.variables.selected] = LowestAction(args)
                /\ vals[tdata.variables.selected] \in 1..NUM_ACTION
                /\ fired \cap InputCapture
                      = {t \in InputCapture : ActionOf(t) = LowestAction(args)}
                /\ Cardinality(fired \cap InputCapture) = 1]_vars

\* Update has fired in a tick in which two buildings are selected, after a
\* tick in which another building was selected: the register holds the
\* lower action of this tick.
C32_Witness ==
    /\ JustFired(tdata.update)
    /\ ticks >= 1
    /\ Cardinality(args) = 2
    /\ vals[tdata.variables.selected] = LowestAction(args)
    /\ vals[tdata.variables.selected] > 1
    /\ Cardinality(fired \cap InputCapture) = 1

(***************************************************************************)
(* SpecPreview: the cells of the pieces (tetromino.py, index.py) and the   *)
(* units of the 2 x 4 boards that display the next pieces and the hold     *)
(* piece (tetrisdata.py).  An Index is the pair <<row, col>>; `args` is    *)
(* the last call, `ret` what it returned.                                  *)
(***************************************************************************)

\* _INDICES: the indices of each piece relative to its center.
INDICES ==
    [I |-> {<<0, 0 - 1>>, <<0, 0>>, <<0, 1>>, <<0, 2>>},
     J |-> {<<0 - 1, 0 - 1>>, <<0, 0 - 1>>, <<0, 0>>, <<0, 1>>},
     L |-> {<<0, 0 - 1>>, <<0, 0>>, <<0, 1>>, <<0 - 1, 1>>},
     O |-> {<<0, 0>>, <<0 - 1, 0>>, <<0 - 1, 1>>, <<0, 1>>},
     S |-> {<<0, 0 - 1>>, <<0, 0>>, <<0 - 1, 0>>, <<0 - 1, 1>>},
     T |-> {<<0, 0 - 1>>, <<0, 0>>, <<0, 1>>, <<0 - 1, 0>>},
     Z |-> {<<0 - 1, 0 - 1>>, <<0 - 1, 0>>, <<0, 0>>, <<0, 1>>}]

\* Index.__add__.
index_add(a, b) == <<a[1] + b[1], a[2] + b[2]>>

\* Index.rotate(r).
rotate(index, r) ==
    IF r = "CW" THEN <<index[2], 0 - index[1]>> ELSE <<0 - index[2], index[1]>>

\* Tetromino.indices(facing, center); the empty tuple stands for a center
\* that is not passed (None).
indices(self, facing, center) ==
    LET c    == IF center = <<>> THEN <<0, 0>> ELSE center
        base == INDICES[self]
        rot  == IF self # "O" /\ facing = "R"
                    THEN {rotate(index, "CW") : index \in base}
                ELSE IF self # "O" /\ facing = "D"
                    THEN {rotate(rotate(index, "CW"), "CW") : index \in base}
                ELSE IF self # "O" /\ facing = "L"
                    THEN {rotate(index, "CCW") : index \in base}
                ELSE base
    IN  {index_add(index, c) : index \in rot}

\* Mutant: the cells of a piece are not translated.
board_cells_uncentered(self) == indices(self, "U", <<0, 0>>)

\* The cells board_unit_ids looks up: self.indices(center=Index(1, 1)).
board_cells(self) == indices(self, "U", <<1, 1>>)

\* lst[i] of a Python list whose first element is lst[1] here: a negative i
\* counts from the end; outside of the list it is an IndexError, written
\* as the empty tuple.
subscript(lst, i) ==
    IF i >= Len(lst) \/ i < 0 - Len(lst) THEN <<>>
    ELSE <<lst[(i % Len(lst)) + 1]>>

\* Tetromino.board_unit_ids(unit_board): the reference ids of the units at
\* the cells of the piece.
board_unit_ids(self, unit_board) ==
    LET looked == {[index |-> index,
                    row   |-> subscript(unit_board, index[1])] :
                       index \in board_cells(self)}
        units  == {IF u.row = <<>> THEN <<>>
                   ELSE subscript(u.row[1], u.index[2]) : u \in looked}
    IN  IF <<>> \in units THEN [err |-> "IndexError", value |-> {}]
        ELSE [err |-> "none", value |-> {u[1] : u \in units}]

\* _generate_hold_units (and each board of _generate_next_units): 2 rows of
\* 4 units, added row by row; `first` is the reference id of the first.
generate_board(first) ==
    [r \in 1..2 |-> [c \in 1..4 |-> first + (4 * (r - 1)) + (c - 1)]]

\* The reference ids of all the units of a board.
unit_ids(unit_board) ==
    {unit_board[r][c] : r \in 1..Len(unit_board), c \in 1..Len(unit_board[1])}

InitPreview ==
    /\ n = 0 /\ tmgr = <<>> /\ tree = NoTree /\ err = "none"
    /\ node = NoTree /\ flips = <<>> /\ weight = 1
    /\ args = [method |-> "__init__", params |-> <<>>]
    /\ caller = <<>>
    /\ ret = [err |-> "none", value |-> {}]
    /\ tdata = <<>> /\ scn = <<>>
    /\ enabled = <<>> /\ vals = <<>> /\ pc = 0
    /\ timer = <<>> /\ observed = {} /\ evaluated = {} /\ fired = {} /\ ticks = 0

\* indices is called: any piece, any facing, no center or a center.
CallIndices ==
    /\ \E t \in Tetrominos : \E d \in DOMAIN Directions :
          \E center \in {<<>>} \cup ((0..1) \X (0..1)) :
              /\ args' = [method |-> "indices", params |-> <<t, Directions[d], center>>]
              /\ ret' = [err |-> "none", value |-> indices(t, Directions[d], center)]
    /\ UNCHANGED <<n, tmgr, tree, err, node, flips, weight, caller, tdata, scn,
                   engineVars>>

\* board_unit_ids is called: any piece, the hold board or a next board.
CallBoardUnitIds ==
    /\ \E t \in Tetrominos : \E k \in 0..NUM_NEXT :
          /\ args' = [method |-> "board_unit_ids", params |-> <<t, generate_board(8 * k)>>]
          /\ ret' = board_unit_ids(t, generate_board(8 * k))
    /\ UNCHANGED <<n, tmgr, tree, err, node, flips, weight, caller, tdata, scn,
                   engineVars>>

NextPreview == CallIndices \/ CallBoardUnitIds

SpecPreview == InitPreview /\ [][NextPreview]_vars

\* C33: for each of the 7 pieces the cells board_unit_ids uses are 4
\* different cells of a 2 x 4 board (row 0 or 1, column 0..3, none
\* negative); the call raises no error and returns 4 of the 8 reference
\* ids of the board, so that the difference with all ids of the board is
\* the other 4.
C33_PreviewCells ==
    /\ Cardinality(Tetrominos) = NUM_TETROMINO
    /\ \A t \in Tetrominos :
          /\ Cardinality(board_cells(t)) = 4
          /\ board_cells(t) \subseteq (0..1) \X (0..3)
    /\ args.method = "board_unit_ids" =>
          LET all == unit_ids(args.params[2])
          IN  /\ ret.err = "none"
              /\ Cardinality(all) = 8
              /\ ret.value \subseteq all
              /\ Cardinality(ret.value) = 4
              /\ Cardinality(all \ ret.value) = 4
              /\ ret.value
                    = {args.params[2][c[1] + 1][c[2] + 1] : c \in board_cells(args.params[1])}

\* board_unit_ids was called for piece I on the third next board: it
\* returned the 4 ids of the second row.
C33_Witness ==
    /\ args.method = "board_unit_ids"
    /\ args.params[1] = "I"
    /\ ret.err = "none"
    /\ ret.value = {28, 29, 30, 31}

(***************************************************************************)
(* The order of the tree triggers in the trigger list (SpecTreeRun).       *)
(***************************************************************************)

\* The triggers with an Activate Trigger effect for trigger t.
ActivatorsOf(t) ==
    {a \in DOMAIN scn :
        \E i \in 1..Len(scn[a].effects) :
            scn[a].effects[i].type = "ACTIVATE_TRIGGER" /\ scn[a].effects[i].a = t}

\* C34: 'Fisher Yates Permutation' is declared before every trigger of
\* every tree; in a tree the failure trigger of a split is declared right
\* after its success trigger and both before every trigger of the two
\* subtrees of the split; so every trigger that activates a tree trigger
\* is before it in the trigger list.
\* The trigger list and the wiring are those of the scenario as compiled:
\* no step changes them.
C34_RegistryOrder ==
    /\ [][tdata' = tdata /\ scn' = scn]_vars
    /\ \A t \in TreeTriggerIds : tdata.activate_random < t
    /\ \A i \in 1..Len(tdata.rand_int_trees) :
          \A s \in Subtrees(tdata.rand_int_trees[i]) :
              /\ s.data.failure = s.data.success + 1
              /\ \A t \in OwnedTriggers(s.left) \cup OwnedTriggers(s.right) :
                    s.data.failure < t
    /\ \A t \in TreeTriggerIds :
          /\ ActivatorsOf(t) # {}
          /\ \A a \in ActivatorsOf(t) : a < t

\* A trigger of a subtree has fired in the tick in which the trigger that
\* activates it has fired before it.
C34_Witness ==
    \E t \in fired \cap TreeTriggerIds :
        \E a \in ActivatorsOf(t) \cap fired :
            /\ a < t
            /\ a # tdata.activate_random
            /\ tdata.activate_random \in ActivatorsOf(a)

(***************************************************************************)
(* The tree triggers left enabled by an activation (SpecTreeRun).          *)
(***************************************************************************)

RECURSIVE LeadsTo(_)
\* The pairs <<p, c>> of a trigger p of a split of t and a trigger c of the
\* split that p leads to.
LeadsTo(t) ==
    IF IsLeaf(t) THEN {}
    ELSE (IF IsLeaf(t.left) THEN {}
          ELSE {<<t.data.success, t.left.data.success>>,
                <<t.data.success, t.left.data.failure>>})
         \cup (IF IsLeaf(t.right) THEN {}
               ELSE {<<t.data.failure, t.right.data.success>>,
                     <<t.data.failure, t.right.data.failure>>})
         \cup LeadsTo(t.left) \cup LeadsTo(t.right)

\* The two triggers of the root of the observed tree.
RootTriggers == {ObservedTree.data.success, ObservedTree.data.failure}

RECURSIVE OnPath(_, _)
\* The triggers of the splits on the path the coins choose in t when the
\* triggers F fired: at a split whose success trigger fired (its chance
\* passed) the path goes left, otherwise right.
OnPath(t, F) ==
    IF IsLeaf(t) THEN {}
    ELSE {t.data.success, t.data.failure}
         \cup (IF t.data.success \in F THEN OnPath(t.left, F) ELSE OnPath(t.right, F))

\* What holds of the tree triggers in every state: when the tick of an
\* activation has been swept no trigger of any tree is enabled, a success
\* trigger that was activated and did not fire had the failure trigger of
\* its split fire, a trigger of a split is enabled only after a trigger
\* leading to the split has fired in this tick, and at the start of a tick
\* the triggers of the tree are all disabled or only the two root triggers
\* are enabled.
NoStaleNode ==
    /\ ActivationDone => \A t \in TreeTriggerIds : ~enabled[t]
    /\ ActivationDone =>
            \A i \in 1..Len(Splits(ObservedTree)) :
                LET s == Splits(ObservedTree)[i]
                IN  (s.success \notin fired
                        /\ (s.success \in RootTriggers
                               \/ \E e \in LeadsTo(ObservedTree) :
                                     e[2] = s.success /\ e[1] \in fired))
                    => s.failure \in fired
    /\ \A e \in LeadsTo(ObservedTree) : enabled[e[2]] => e[1] \in fired
    /\ \A t \in TreeTriggerIds \ observed : ~enabled[t]
    /\ pc = 1 =>
            \/ \A t \in observed : ~enabled[t]
            \/ {t \in observed : enabled[t]} = RootTriggers

\* C35 (as stated): after an activation has run to a leaf no trigger of the
\* tree is left enabled, a success trigger whose chance did not pass having
\* been disabled by the failure trigger of its split, and the triggers of
\* the subtrees that are not on the path are never enabled (and so never
\* fire); a later activation starts with every trigger of the tree
\* disabled and no tree trigger of an earlier tick fires later.
C35_Original ==
    /\ NoStaleNode
    /\ \A t \in observed \ OnPath(ObservedTree, fired) : ~enabled[t] /\ t \notin fired

(***************************************************************************)
(* The sequences one run of the six trees can produce (SpecTreeRun): the   *)
(* list-order sweep of the engine as a function of the coins.              *)
(***************************************************************************)

RECURSIVE SweepFrom(_, _, _)
\* The flags and variables the sweep of the triggers t..hi in list order
\* can leave from st: a disabled trigger is passed, an enabled trigger
\* without Chance condition fires, one with a Chance condition fires or
\* not.
SweepFrom(t, hi, st) ==
    IF t > hi THEN {st}
    ELSE IF ~st.enabled[t] THEN SweepFrom(t + 1, hi, st)
    ELSE IF External(t)
        THEN SweepFrom(t + 1, hi, FireOn(t, st)) \cup SweepFrom(t + 1, hi, st)
    ELSE SweepFrom(t + 1, hi, FireOn(t, st))

\* The sweep of the triggers of tree number i from each of the states S.
SweepTree(i, S) ==
    LET lo == tdata.rand_int_trees[i].data.success
        hi == lo + Cardinality(TreeTriggers(i)) - 1
    IN  UNION {SweepFrom(lo, hi, st) : st \in S}

RECURSIVE RunStates(_)
\* The states after the trees 1..i of rand_int_trees were swept in the tick
\* in which 'Fisher Yates Permutation' fired with the slots initialised.
RunStates(i) ==
    IF i = 0 THEN {FireOn(tdata.activate_random, HarnessState)}
    ELSE SweepTree(i, RunStates(i - 1))

\* The sequence of the 7 slots in st.
Buffer(st) == [k \in 0..(NUM_TETROMINO - 1) |-> st.vals[piece_vars[0][k]]]

\* The sequences a run of the six trees can leave in the slots.
RunBuffers == {Buffer(st) : st \in RunStates(Len(tdata.rand_int_trees))}

RECURSIVE Factorial(_)
Factorial(k) == IF k = 0 THEN 1 ELSE k * Factorial(k - 1)

\* C36 (as stated): every permutation of the initial sequence of the 7
\* slots is the content of the slots after the six trees have run, for
\* some outcomes of the coins: the sequences a run can produce are
\* permutations of the initial sequence, the initial sequence is one of
\* them, and there are 7! of them.
C36_Original ==
    /\ \A b \in RunBuffers :
          {b[k] : k \in DOMAIN b} = {Buffer(HarnessState)[k] : k \in 0..(NUM_TETROMINO - 1)}
    /\ Buffer(HarnessState) \in RunBuffers
    /\ Cardinality(RunBuffers) = Factorial(NUM_TETROMINO)

(***************************************************************************)
(* The names generated by a ScriptCaller (SpecCaller).                     *)
(***************************************************************************)

\* C37: the names _N generated by the calls on one caller are pairwise
\* distinct: the first init_xs_state yields _0 and every call that
\* succeeds, a repeated init_xs_state included, uses the N of the previous
\* name plus 1; a call that raises (the assertion error before
\* init_xs_state, the ValueError for a seq_num outside {0, 1}, an i or j
\* outside 0..6, a next-board index outside {0, 1, 2}) returns no name and
\* uses no number.
C37_DistinctNames ==
    /\ [](/\ \A i, j \in DOMAIN flips : i # j => flips[i] # flips[j]
          /\ \A i \in DOMAIN flips : flips[i] = i - 1
          /\ caller.suffix = Len(flips) - 1)
    /\ [][args'.method # "from_int" =>
            /\ args'.method = "init_xs_state" => ret'.err = "none"
            /\ ((caller.suffix = 0 - 1 /\ CallsOther) \/ ~ValidArguments(args'))
                  => ret'.err \in {"AssertionError", "ValueError"}
            /\ IF ret'.err = "none"
               THEN /\ StepSucceeds
                    /\ flips' = Append(flips, caller.suffix + 1)
               ELSE /\ StepRaises(ret'.err)
                    /\ flips' = flips]_vars

\* After _0 and _1 a call with an argument out of range raised ValueError:
\* the numbers used are still 0 and 1.
C37_Witness ==
    /\ flips = <<0, 1>>
    /\ err = "ValueError"
    /\ ret.call = NoCall
    /\ caller.suffix = 1

(***************************************************************************)
(* The percentages of the splits (checked under SpecTree).                 *)
(***************************************************************************)

\* C38: when n + 1 is a power of two every split of the tree has the
\* percentage 50 and every leaf is at depth log2(n + 1), so that every
\* integer of 0..n is reached with probability exactly 1/(n + 1); for
\* every bound n >= 1 the success percentage of every split is at most 50.
C38_EvenSplits ==
    (Built /\ n >= 1) =>
        /\ \A t \in Subtrees(tree) : t.data.percent <= 50
        /\ IsPow2(n + 1) =>
              /\ \A t \in Subtrees(tree) : t.data.percent = 50
              /\ \A d \in LeafDepths(tree) : Pow(2, d) = n + 1
              /\ \A p \in LeafPaths(tree) :
                    PathWeight(tree, p) * (n + 1) = Pow(100, Len(p))
              /\ IsLeaf(node) => weight * (n + 1) = Pow(100, Len(flips))

\* The walk through the tree for n = 7 has reached a leaf after three coin
\* flips, each of a split with percentage 50.
C38_Witness ==
    /\ Built /\ n = 7
    /\ IsLeaf(node)
    /\ Len(flips) = 3
    /\ weight = 50 * 50 * 50
    /\ tree.data.percent = 50

====
